---- MODULE Spec2Model ----
(***************************************************************************)
(* Model of the FinOps pipeline: the resilient API ingestion layer         *)
(* (error_handling.py, data_adapter.py) and the layered metrics engine     *)
(* (metrics_service.py, generate_report.py, metrics_calculator.py).        *)
(*                                                                         *)
(* Each subsystem has its own specification over the shared variables; a   *)
(* specification holds the variables of the other subsystems at their      *)
(* idle values.                                                            *)
(***************************************************************************)
EXTENDS Integers, Sequences, FiniteSets, TLC

(***************************************************************************)
(* Python values.  A status code is an int, a str or None                  *)
(* (APIError.status_code: int | str | None); the three are kept apart by   *)
(* a wrapper, so that 200 and 'TIMEOUT' are distinct values of one kind.    *)
(***************************************************************************)
None == [t |-> "None"]

IntV(n) == [t |-> "int", n |-> n]

StrV(s) == [t |-> "str", s |-> s]

Min(a, b) == IF a <= b THEN a ELSE b

Max(a, b) == IF a >= b THEN a ELSE b

RECURSIVE Pow2(_)
Pow2(n) == IF n <= 0 THEN 1 ELSE 2 * Pow2(n - 1)

(***************************************************************************)
(* Strings that the program inspects (URLs, endpoint paths) are sequences  *)
(* of tokens, "/" being a token of its own; the concatenation of strings   *)
(* is \o.                                                                  *)
(***************************************************************************)
\* str.startswith
startswith_Contains(str, prefix) ==
    \E i \in 0..(Len(str) - Len(prefix)) :
        SubSeq(str, i + 1, i + Len(prefix)) = prefix

startswith(str, prefix) ==
    Len(str) >= Len(prefix) /\ SubSeq(str, 1, Len(prefix)) = prefix

\* str.rstrip('/')
RECURSIVE rstrip_slash(_)
rstrip_slash(str) ==
    IF str # <<>> /\ str[Len(str)] = "/"
      THEN rstrip_slash(SubSeq(str, 1, Len(str) - 1))
      ELSE str

(***************************************************************************)
(* JSON values: null, numbers, objects (functions on a set of keys) and    *)
(* lists.  A text is either the serialisation of a JSON value or a text    *)
(* that is not JSON.                                                       *)
(***************************************************************************)
JNull == [j |-> "null"]

JNum(n) == [j |-> "num", n |-> n]

JObj(o) == [j |-> "obj", o |-> o]

JList(l) == [j |-> "list", l |-> l]

JBool(b) == [j |-> "bool", b |-> b]

JsonText(v) == [j |-> "str", json |-> v]

PlainText(s) == [j |-> "str", plain |-> s]

EmptyObj == JObj(<<>>)

\* isinstance(x, str), isinstance(x, dict), isinstance(x, list)
IsStr(x) == x.j = "str"

IsDict(x) == x.j = "obj"

IsList(x) == x.j = "list"

\* json.loads / response.json(): the value, or JSONDecodeError
IsJsonText(text) == "json" \in DOMAIN text

json_loads(text) == text.json

\* truth value of a JSON value ("while has_more", "x and ...")
Truthy(x) ==
    CASE x.j = "bool" -> x.b
      [] x.j = "null" -> FALSE
      [] x.j = "num" -> x.n # 0
      [] x.j = "list" -> x.l # <<>>
      [] x.j = "obj" -> DOMAIN x.o # {}
      [] OTHER -> TRUE

\* dict.get(key, default) and "key in dict"
HasKey(d, key) == key \in DOMAIN d.o

Get(d, key, default) == IF HasKey(d, key) THEN d.o[key] ELSE default

(***************************************************************************)
(* Bounds of the model.                                                    *)
(***************************************************************************)
MaxRetriesBound == 3

BaseDelays == {1, 2}

MaxDelays == {1, 3, 30}

ReturnValues == {1, 2}

MaxPages == 3

MaxEndpoints == 2

MaxUsers == 2

(***************************************************************************)
(* State.                                                                  *)
(***************************************************************************)
\* error_handling.handle_api_errors
VARIABLES
    max_retries,     \* decorator argument
    base_delay,      \* decorator argument
    max_delay,       \* decorator argument
    attempt,         \* loop variable of "for attempt in range(1, max_retries + 1)"
    history,         \* outcomes of the invocations of func so far, in order
    sleeps,          \* arguments of the time.sleep calls so far, in order
    wrapper_pc,      \* "idle" | "running" | "returned" | "raised"
    wrapper_out      \* value returned, or exception raised, by the wrapper

\* data_adapter: the function that runs, the environment and the HTTP calls
VARIABLES
    call,            \* the data_adapter function under execution
    env_api_key,     \* os.getenv('DEVIN_ENTERPRISE_API_KEY'): a key or None
    http_log         \* the requests.get calls made so far, in order

\* data_adapter.fetch_cognition_data
VARIABLES
    cg_args,         \* base_url, endpoint, api_key, page_size, start_date, end_date
    cg_pc,           \* "idle" | "start" | "loop" | "returned" | "raised"
    skip,
    has_more,
    page_count,
    all_data,
    pages,           \* bodies of the pages received so far, in order
    cg_out           \* exception raised by fetch_cognition_data

\* data_adapter.fetch_api_data
VARIABLES
    endpoint_list,       \* {endpoint_name: endpoint_path}, in insertion order
    params_by_endpoint,  \* None or {endpoint_name: params}
    fa_pc,               \* "idle" | "start" | "loop" | "returned" | "raised"
    fa_outcomes,         \* outcome of the request of each endpoint processed
    results

\* data_adapter.fetch_user_organization_mappings
VARIABLES
    user_ids,
    um_pc,               \* "idle" | "start" | "loop" | "returned" | "raised"
    um_outcomes,         \* outcome of the request of each user processed
    user_org_mappings

\* metrics_service.calculate_base_metrics and generate_report.calculate_base_metrics
VARIABLES
    all_api_data,        \* {endpoint_name: {status_code, response}}
    base_pc,             \* "idle" | "start" | "done": metrics_service
    base_data,           \* result of metrics_service.calculate_base_metrics
    report_base_pc,      \* "idle" | "start" | "done": generate_report
    report_base_data     \* result of generate_report.calculate_base_metrics

\* config.MetricsConfig
VARIABLES
    price_per_acu        \* config.price_per_acu, in hundredths of the currency unit

\* metrics_calculator.MetricsCalculator
VARIABLES
    file,                \* the content of the file that load_data is given
    broken,              \* the calculate_* methods that are replaced by one that raises
    data,                \* self.data
    sessions,            \* self.sessions
    users,               \* self.users
    calc_pc,             \* "idle" | "new" | "loaded" | "load_failed" | "loop" | "returned" | "raised"
    metrics,             \* the local metrics of calculate_all_metrics
    failed_metrics,      \* the local failed_metrics of calculate_all_metrics
    invoked,             \* the methods calculate_all_metrics has invoked, in order
    calc_out             \* the result or the exception of the last call

\* calculate_finops_metrics (metrics_service.py and generate_report.py)
VARIABLES
    end_date,            \* the end_date argument: None or the characters of a string
    finops_runs          \* the executions so far: which copy, the clock it read, its outcome

\* error_handling.handle_pipeline_phase
VARIABLES
    wrappers,            \* the decorators around the function, the innermost first
    phase_pc,            \* "idle" | "start" | "unwinding" | "left"
    phase_level,         \* how many of the wrappers the outcome has left
    phase_outcome,       \* what the function returned or raised, as it travels outwards
    function_outcome     \* what the function itself returned or raised

\* github_adapter: _forbidden_repos and fetch_all_pr_data
VARIABLES
    forbidden_repos,     \* the module-level _forbidden_repos
    github_token,        \* whether GITHUB_TOKEN is set at the call
    pr_urls,             \* the argument of the call
    pr_pc,               \* "idle" | "loop" | "returned"
    pr_index,            \* the URLs of pr_urls processed so far
    pr_results,          \* the local results
    pr_requests,         \* the fetches of the call that went to the network, in order
    pr_calls,            \* the calls of fetch_all_pr_data begun in the process
    pr_step              \* what the last iteration of the loop did

\* jira_adapter.fetch_jira_issue_changelog
VARIABLES
    jira_base_url,       \* whether JIRA_BASE_URL is set at the call
    jira_pc,             \* "idle" | "ready" | "loop" | "returned"
    start_at,
    all_changelogs,
    jira_pages,          \* the iterations so far: start_at of the request and its answer
    jira_out             \* what the call returned

retryVars == <<max_retries, base_delay, max_delay, attempt, history, sleeps,
               wrapper_pc, wrapper_out>>

envVars == <<call, env_api_key>>

cgVars == <<cg_args, cg_pc, skip, has_more, page_count, all_data, pages, cg_out>>

faVars == <<endpoint_list, params_by_endpoint, fa_pc, fa_outcomes, results>>

umVars == <<user_ids, um_pc, um_outcomes, user_org_mappings>>

adapterVars == <<envVars, http_log, cgVars, faVars, umVars>>

baseVars == <<all_api_data, base_pc, base_data, report_base_pc, report_base_data>>

calcVars == <<file, broken, data, sessions, users, calc_pc, metrics, failed_metrics,
              invoked, calc_out>>

finopsVars == <<end_date, finops_runs>>

pipelineVars == <<wrappers, phase_pc, phase_level, phase_outcome, function_outcome>>

githubVars == <<forbidden_repos, github_token, pr_urls, pr_pc, pr_index, pr_results,
                pr_requests, pr_calls, pr_step>>

jiraVars == <<jira_base_url, jira_pc, start_at, all_changelogs, jira_pages, jira_out>>

\* the subsystems that have no part in any of the others
apartVars == <<pipelineVars, githubVars, jiraVars>>

otherThanRetry == <<adapterVars, baseVars, calcVars, finopsVars, price_per_acu, apartVars>>

otherThanAdapter == <<retryVars, baseVars, calcVars, finopsVars, price_per_acu, apartVars>>

otherThanBase == <<retryVars, adapterVars, calcVars, finopsVars, price_per_acu, apartVars>>

otherThanCalc == <<retryVars, adapterVars, baseVars, finopsVars, price_per_acu, apartVars>>

otherThanFinops == <<retryVars, adapterVars, calcVars, price_per_acu, apartVars>>

otherThanPipeline == <<retryVars, adapterVars, baseVars, calcVars, finopsVars,
                       price_per_acu, githubVars, jiraVars>>

otherThanGithub == <<retryVars, adapterVars, baseVars, calcVars, finopsVars,
                     price_per_acu, pipelineVars, jiraVars>>

otherThanJira == <<retryVars, adapterVars, baseVars, calcVars, finopsVars,
                   price_per_acu, pipelineVars, githubVars>>

vars == <<retryVars, adapterVars, baseVars, calcVars, finopsVars, price_per_acu,
          pipelineVars, githubVars, jiraVars>>

(***************************************************************************)
(* error_handling.handle_api_errors                                        *)
(***************************************************************************)
retryable_status_codes == {IntV(429), IntV(500), IntV(502), IntV(503), IntV(504)}

\* status codes an HTTPError of the wrapped call can carry; None is an
\* HTTPError whose response is None
HttpErrorStatuses ==
    {IntV(401), IntV(403), IntV(404), IntV(429), IntV(500), IntV(502), IntV(503),
     IntV(504), None}

\* exceptions of the taxonomy the wrapped call can raise itself
TaxonomyExceptions ==
    {[exc |-> "APIError", status_code |-> IntV(404)],
     [exc |-> "AuthenticationError", status_code |-> IntV(401)],
     [exc |-> "RateLimitError", status_code |-> IntV(429)],
     [exc |-> "ServerError", status_code |-> IntV(500)]}

\* requests.exceptions.ConnectTimeout derives from both ConnectionError and
\* Timeout; ReadTimeout derives from Timeout only
TimeoutClasses == {"Timeout", "ConnectTimeout", "ReadTimeout"}

ConnectionErrorClasses == {"ConnectionError", "SSLError"}

OtherExceptionClasses == {"ValueError", "KeyError"}

Raised(exc, status_code, cause) ==
    [kind |-> "raise", exc |-> exc, status_code |-> status_code, cause |-> cause]

Returned_Stale(v) == [kind |-> "return", value |-> 0]

Returned(v) == [kind |-> "return", value |-> v]

\* delay = min(base_delay * (2 ** (attempt - 1)), max_delay)
Delay_NoCap(k) == base_delay * Pow2(k - 1)

Delay(k) == Min(base_delay * Pow2(k - 1), max_delay)

\* if status_code in (401, 403)
IsAuthStatus_Only401(status_code) == status_code = IntV(401)

IsAuthStatus(status_code) == status_code \in {IntV(401), IntV(403)}

\* if status_code is not None and status_code in retryable_status_codes
IsRetryableStatus_Any(status_code) == status_code # None

IsRetryableStatus(status_code) ==
    status_code # None /\ status_code \in retryable_status_codes

\* if attempt < max_retries
MayRetry_OffByOne(k) == k <= max_retries

MayRetry(k) == k < max_retries

\* raise ServerError(..., status_code=status_code) from exc
HTTPTerminal(status_code) == Raised("ServerError", status_code, "HTTPError")

\* raise APIError(..., status_code="TIMEOUT") from exc
TimeoutTerminal_NoTag(cls) == Raised("APIError", StrV("ERROR"), cls)

TimeoutTerminal(cls) == Raised("APIError", StrV("TIMEOUT"), cls)

\* raise APIError(..., status_code="CONNECTION_ERROR") from exc
ConnectionTerminal_AsTimeout(cls) == Raised("APIError", StrV("TIMEOUT"), cls)

ConnectionTerminal(cls) == Raised("APIError", StrV("CONNECTION_ERROR"), cls)

\* "if attempt < max_retries: time.sleep(delay); continue" else the terminal raise
RetryOrRaise(outcome, terminal) ==
    /\ history' = Append(history, outcome)
    /\ IF MayRetry(attempt)
         THEN /\ sleeps' = Append(sleeps, Delay(attempt))
              /\ attempt' = attempt + 1
              /\ UNCHANGED <<wrapper_pc, wrapper_out>>
         ELSE /\ wrapper_pc' = "raised"
              /\ wrapper_out' = terminal
              /\ UNCHANGED <<sleeps, attempt>>
    /\ UNCHANGED <<max_retries, base_delay, max_delay>>

\* a return or a raise that leaves the wrapper
Terminate(outcome, pc, out) ==
    /\ history' = Append(history, outcome)
    /\ wrapper_pc' = pc
    /\ wrapper_out' = out
    /\ UNCHANGED <<max_retries, base_delay, max_delay, attempt, sleeps>>

\* for attempt in range(1, max_retries + 1)
InLoop == wrapper_pc = "running" /\ attempt <= max_retries

\* return func(*args, **kwargs)
WrapperReturn ==
    /\ InLoop
    /\ \E v \in ReturnValues :
         /\ Terminate([kind |-> "ok", value |-> v], "returned", Returned(v))
         /\ UNCHANGED otherThanRetry

\* except requests.exceptions.HTTPError
WrapperHTTPError ==
    /\ InLoop
    /\ \E status_code \in HttpErrorStatuses :
         LET outcome == [kind |-> "HTTPError", status_code |-> status_code] IN
         IF IsAuthStatus(status_code)
           THEN Terminate(outcome, "raised",
                          Raised("AuthenticationError", status_code, "HTTPError"))
           ELSE IF IsRetryableStatus(status_code)
             THEN RetryOrRaise(outcome, HTTPTerminal(status_code))
             ELSE Terminate(outcome, "raised",
                            Raised("APIError", status_code, "HTTPError"))
    /\ UNCHANGED otherThanRetry

\* except requests.exceptions.Timeout
WrapperTimeout ==
    /\ InLoop
    /\ \E cls \in TimeoutClasses :
         RetryOrRaise([kind |-> "Timeout", cls |-> cls], TimeoutTerminal(cls))
    /\ UNCHANGED otherThanRetry

\* except requests.exceptions.ConnectionError
WrapperConnectionError ==
    /\ InLoop
    /\ \E cls \in ConnectionErrorClasses :
         RetryOrRaise([kind |-> "ConnectionError", cls |-> cls],
                      ConnectionTerminal(cls))
    /\ UNCHANGED otherThanRetry

\* except (APIError, AuthenticationError, RateLimitError, ServerError): raise
WrapperTaxonomy ==
    /\ InLoop
    /\ \E e \in TaxonomyExceptions :
         Terminate([kind |-> "Taxonomy", exc |-> e.exc, status_code |-> e.status_code],
                   "raised", Raised(e.exc, e.status_code, "same"))
    /\ UNCHANGED otherThanRetry

\* except Exception
WrapperUnexpected ==
    /\ InLoop
    /\ \E cls \in OtherExceptionClasses :
         Terminate([kind |-> "Exception", cls |-> cls], "raised",
                   Raised("APIError", StrV("ERROR"), cls))
    /\ UNCHANGED otherThanRetry

\* raise APIError(f"{func_name} failed after {max_retries} retries")
WrapperFallThrough ==
    /\ wrapper_pc = "running"
    /\ attempt > max_retries
    /\ wrapper_pc' = "raised"
    /\ wrapper_out' = Raised("APIError", None, "last_exception")
    /\ UNCHANGED <<max_retries, base_delay, max_delay, attempt, history, sleeps>>
    /\ UNCHANGED otherThanRetry

RetryIdle ==
    /\ max_retries = 0
    /\ base_delay = 0
    /\ max_delay = 0
    /\ attempt = 0
    /\ history = <<>>
    /\ sleeps = <<>>
    /\ wrapper_pc = "idle"
    /\ wrapper_out = None

RetryInit ==
    /\ max_retries \in (-1)..MaxRetriesBound
    /\ base_delay \in BaseDelays
    /\ max_delay \in MaxDelays
    /\ attempt = 1
    /\ history = <<>>
    /\ sleeps = <<>>
    /\ wrapper_pc = "running"
    /\ wrapper_out = None

NextRetry ==
    \/ WrapperReturn
    \/ WrapperHTTPError
    \/ WrapperTimeout
    \/ WrapperConnectionError
    \/ WrapperTaxonomy
    \/ WrapperUnexpected
    \/ WrapperFallThrough

(***************************************************************************)
(* data_adapter.fetch_cognition_data                                       *)
(***************************************************************************)
ENTERPRISE_BASE_URL == <<"https://api.devin.ai", "/", "v2", "/", "enterprise">>

V2_BASE_URL == <<"https://api.devin.ai", "/", "v2">>

AUDIT_LOGS_PREFIX == <<"/", "audit-logs">>

DEFAULT_ENDPOINT == <<"/", "consumption", "/", "daily">>

DEFAULT_PAGE_SIZE == 100

\* the parameters of fetch_cognition_data the model draws from
CognitionArgs ==
    [base_url : {ENTERPRISE_BASE_URL, ENTERPRISE_BASE_URL \o <<"/">>},
     endpoint : {DEFAULT_ENDPOINT, AUDIT_LOGS_PREFIX},
     api_key : {None, StrV("test_key")},
     page_size : {1, DEFAULT_PAGE_SIZE},
     start_date : {None, StrV("2024-01-01")},
     end_date : {None}]
    \cup
    [base_url : {ENTERPRISE_BASE_URL},
     endpoint : {DEFAULT_ENDPOINT},
     api_key : {StrV("test_key")},
     page_size : {DEFAULT_PAGE_SIZE},
     start_date : {StrV("2024-01-01")},
     end_date : {StrV("2024-12-31")}]

\* the bodies a page of the upstream API can have: 'data' and 'has_more'
\* are each present or absent
PageDataParts ==
    {<<>>} \cup {"data" :> JList(l) : l \in {<<>>, <<"a">>, <<"b", "a">>}}

PageHasMoreParts ==
    {<<>>} \cup {"has_more" :> JBool(b) : b \in BOOLEAN}

PageBodies == {JObj(d @@ h) : d \in PageDataParts, h \in PageHasMoreParts}

\* bodies on which the processing of a page raises: the body is not JSON
\* (response.json()), is not an object (.get) or has a null 'data' (extend)
BadPageBodies ==
    {PlainText("<html>"), JList(<<>>), JObj("data" :> JNull)}

AuthFailureStatuses == {401, 403}

\* statuses for which response.raise_for_status() raises HTTPError
RaiseForStatusCodes == {404, 429, 500, 503}

\* full_url = f"{base_url.rstrip('/')}{endpoint}"
CognitionUrl(base_url, endpoint) == rstrip_slash(base_url) \o endpoint

\* api_key = os.getenv(...) when the argument is None
CognitionApiKey == IF cg_args.api_key = None THEN env_api_key ELSE cg_args.api_key

\* params = {'skip': skip, 'limit': page_size} plus the dates that are given
CognitionParams ==
    [skip |-> skip, limit |-> cg_args.page_size,
     start_date |-> cg_args.start_date, end_date |-> cg_args.end_date]

\* requests.get(full_url, headers=headers, params=params, timeout=30)
CognitionRequest ==
    [site |-> "fetch_cognition_data",
     url |-> CognitionUrl(cg_args.base_url, cg_args.endpoint),
     path |-> cg_args.endpoint,
     name |-> None,
     params |-> CognitionParams,
     auth |-> CognitionApiKey]

\* the prologue: resolve the API key, build the URL and the headers
CognitionBegin ==
    /\ call = "fetch_cognition_data"
    /\ cg_pc = "start"
    /\ IF CognitionApiKey = None
         THEN /\ cg_pc' = "raised"
              /\ cg_out' = Raised("ValueError", None, "no api key")
         ELSE /\ cg_pc' = "loop"
              /\ UNCHANGED cg_out
    /\ UNCHANGED <<cg_args, skip, has_more, page_count, all_data, pages>>
    /\ UNCHANGED <<envVars, http_log, faVars, umVars, otherThanAdapter>>

\* while has_more: page_count += 1; requests.get(...)
InPageLoop == call = "fetch_cognition_data" /\ cg_pc = "loop" /\ Truthy(has_more)

\* a request of the loop that ends in an exception leaving the function
CognitionRaise(exc, status_code, cause) ==
    /\ page_count' = page_count + 1
    /\ http_log' = Append(http_log, CognitionRequest)
    /\ cg_pc' = "raised"
    /\ cg_out' = Raised(exc, status_code, cause)
    /\ UNCHANGED <<cg_args, skip, has_more, all_data, pages>>
    /\ UNCHANGED <<envVars, faVars, umVars, otherThanAdapter>>

\* a page is received: all_data.extend(page_data); has_more = ...; skip += page_size
NextHasMore(body) == Get(body, "has_more", JBool(FALSE))

NextSkip_PlusOne(s) == s + 1

NextSkip(s) == s + cg_args.page_size

CognitionPage ==
    /\ InPageLoop
    /\ \E body \in PageBodies :
         \* the upstream reports has_more = false within MaxPages pages
         /\ Truthy(Get(body, "has_more", JBool(FALSE))) => page_count + 1 < MaxPages
         /\ page_count' = page_count + 1
         /\ http_log' = Append(http_log, CognitionRequest)
         /\ pages' = Append(pages, body)
         /\ all_data' = all_data \o Get(body, "data", JList(<<>>)).l
         /\ has_more' = NextHasMore(body)
         /\ skip' = NextSkip(skip)
    /\ UNCHANGED <<cg_args, cg_pc, cg_out>>
    /\ UNCHANGED <<envVars, faVars, umVars, otherThanAdapter>>

\* if response.status_code == 401 / 403: raise ValueError
CognitionAuthFailure ==
    /\ InPageLoop
    /\ \E status_code \in AuthFailureStatuses :
         CognitionRaise("ValueError", IntV(status_code), "status")

\* response.raise_for_status() raises; except HTTPError: raise
CognitionHTTPError ==
    /\ InPageLoop
    /\ \E status_code \in RaiseForStatusCodes :
         CognitionRaise("HTTPError", IntV(status_code), "HTTPError")

\* except requests.exceptions.Timeout: raise RequestException(error_msg)
CognitionTimeout ==
    /\ InPageLoop
    /\ \E cls \in TimeoutClasses :
         CognitionRaise("RequestException", None, cls)

\* except requests.exceptions.ConnectionError: raise
CognitionConnectionError ==
    /\ InPageLoop
    /\ \E cls \in ConnectionErrorClasses :
         CognitionRaise(cls, None, cls)

\* response.json(), response_data.get or all_data.extend raises
CognitionBadBody ==
    /\ InPageLoop
    /\ \E body \in BadPageBodies :
         CognitionRaise(IF IsStr(body) THEN "JSONDecodeError"
                        ELSE IF IsDict(body) THEN "TypeError"
                        ELSE "AttributeError", None, "body")

\* the loop ends: return all_data
CognitionReturn ==
    /\ call = "fetch_cognition_data"
    /\ cg_pc = "loop"
    /\ ~Truthy(has_more)
    /\ cg_pc' = "returned"
    /\ UNCHANGED <<cg_args, skip, has_more, page_count, all_data, pages, cg_out>>
    /\ UNCHANGED <<envVars, http_log, faVars, umVars, otherThanAdapter>>

CognitionIdle ==
    /\ cg_args = None
    /\ cg_pc = "idle"
    /\ skip = 0
    /\ has_more = JBool(FALSE)
    /\ page_count = 0
    /\ all_data = <<>>
    /\ pages = <<>>
    /\ cg_out = None

CognitionInit ==
    /\ cg_args \in CognitionArgs
    /\ cg_pc = "start"
    /\ skip = 0
    /\ has_more = JBool(TRUE)
    /\ page_count = 0
    /\ all_data = <<>>
    /\ pages = <<>>
    /\ cg_out = None

NextCognition ==
    \/ CognitionBegin
    \/ CognitionPage
    \/ CognitionAuthFailure
    \/ CognitionHTTPError
    \/ CognitionTimeout
    \/ CognitionConnectionError
    \/ CognitionBadBody
    \/ CognitionReturn

(***************************************************************************)
(* data_adapter.fetch_api_data                                             *)
(***************************************************************************)
EndpointNames == <<"consumption_daily", "audit", "members">>

EndpointPaths ==
    {DEFAULT_ENDPOINT,
     AUDIT_LOGS_PREFIX,
     AUDIT_LOGS_PREFIX \o <<"/", "export">>,
     <<"/", "members", "/", "audit-logs">>}

\* the names of an endpoint mapping: k of EndpointNames, in their order
RECURSIVE SubSeqsOf(_, _)
SubSeqsOf(names, k) ==
    IF k = 0 THEN {<<>>}
    ELSE IF Len(names) < k THEN {}
    ELSE {<<names[1]>> \o r : r \in SubSeqsOf(Tail(names), k - 1)}
         \cup SubSeqsOf(Tail(names), k)

EndpointLists ==
    UNION {
        {[i \in 1..k |-> [name |-> ns[i], path |-> ps[i]]] :
            ns \in SubSeqsOf(EndpointNames, k), ps \in [1..k -> EndpointPaths]}
        : k \in 0..MaxEndpoints}

ParamsByEndpoint ==
    {None,
     [t |-> "dict", d |-> ("consumption_daily" :> StrV("2024-01-01"))]}

\* what the upstream answers: a status and a text
FanoutStatuses == {200, 404, 503}

ResponseTexts == {JsonText(JObj("total" :> JNum(2))), PlainText("Not Found")}

\* if endpoint_path.startswith('/audit-logs') ... else ...
BaseUrlFor(endpoint_path) ==
    IF startswith(endpoint_path, AUDIT_LOGS_PREFIX)
      THEN V2_BASE_URL
      ELSE ENTERPRISE_BASE_URL

\* full_url = f"{base_url.rstrip('/')}{endpoint_path}"
FanoutUrl(endpoint_path) == rstrip_slash(BaseUrlFor(endpoint_path)) \o endpoint_path

\* params_by_endpoint[endpoint_name] when given, else None
FanoutParams(endpoint_name) ==
    IF params_by_endpoint # None /\ endpoint_name \in DOMAIN params_by_endpoint.d
      THEN params_by_endpoint.d[endpoint_name]
      ELSE None

\* the endpoint of the current iteration of "for ... in endpoint_list.items()"
CurrentEndpoint == endpoint_list[Len(fa_outcomes) + 1]

FanoutRequest ==
    [site |-> "fetch_api_data",
     url |-> FanoutUrl(CurrentEndpoint.path),
     path |-> CurrentEndpoint.path,
     name |-> StrV(CurrentEndpoint.name),
     params |-> FanoutParams(CurrentEndpoint.name),
     auth |-> env_api_key]

\* results[endpoint_name] = {...} (the timestamp is left out)
FanoutEntry(status_code, response) ==
    [endpoint_path |-> CurrentEndpoint.path,
     full_url |-> FanoutUrl(CurrentEndpoint.path),
     status_code |-> status_code,
     response |-> response]

\* the status_code recorded for a failure of the request
FailureTag_AllError(kind) == StrV("ERROR")

FailureTag(kind) ==
    CASE kind = "Timeout" -> StrV("TIMEOUT")
      [] kind = "ConnectionError" -> StrV("CONNECTION_ERROR")
      [] OTHER -> StrV("ERROR")

\* response.json() when the status is 200 and the body is JSON, else response.text
ResponseData(status_code, text) ==
    IF status_code = 200 /\ IsJsonText(text) THEN json_loads(text) ELSE text

\* one iteration of the loop: the request is made and its entry recorded
FanoutRecord_Retrying(outcome, entry) ==
    /\ http_log' = Append(http_log, FanoutRequest)
    /\ IF outcome.kind \in {"Timeout", "ConnectionError"}
          /\ (http_log = <<>> \/ http_log[Len(http_log)].name # StrV(CurrentEndpoint.name))
         THEN UNCHANGED <<fa_outcomes, results>>
         ELSE /\ fa_outcomes' = Append(fa_outcomes, outcome)
              /\ results' = (CurrentEndpoint.name :> entry) @@ results
    /\ UNCHANGED <<endpoint_list, params_by_endpoint, fa_pc>>
    /\ UNCHANGED <<envVars, cgVars, umVars, otherThanAdapter>>

FanoutRecord(outcome, entry) ==
    /\ http_log' = Append(http_log, FanoutRequest)
    /\ fa_outcomes' = Append(fa_outcomes, outcome)
    /\ results' = (CurrentEndpoint.name :> entry) @@ results
    /\ UNCHANGED <<endpoint_list, params_by_endpoint, fa_pc>>
    /\ UNCHANGED <<envVars, cgVars, umVars, otherThanAdapter>>

\* the prologue: the API key must be set
FanoutBegin ==
    /\ call = "fetch_api_data"
    /\ fa_pc = "start"
    /\ fa_pc' = IF env_api_key = None THEN "raised" ELSE "loop"
    /\ UNCHANGED <<endpoint_list, params_by_endpoint, fa_outcomes, results>>
    /\ UNCHANGED <<envVars, http_log, cgVars, umVars, otherThanAdapter>>

InFanoutLoop ==
    /\ call = "fetch_api_data"
    /\ fa_pc = "loop"
    /\ Len(fa_outcomes) < Len(endpoint_list)

\* requests.get returns a response
FanoutResponse ==
    /\ InFanoutLoop
    /\ \E status_code \in FanoutStatuses, text \in ResponseTexts :
         FanoutRecord([kind |-> "response", status_code |-> status_code],
                      FanoutEntry(IntV(status_code), ResponseData(status_code, text)))

\* except requests.exceptions.Timeout
FanoutTimeout ==
    /\ InFanoutLoop
    /\ FanoutRecord([kind |-> "Timeout"],
                    FanoutEntry(FailureTag("Timeout"), PlainText("Request timeout")))

\* except requests.exceptions.ConnectionError
FanoutConnectionError ==
    /\ InFanoutLoop
    /\ FanoutRecord([kind |-> "ConnectionError"],
                    FanoutEntry(FailureTag("ConnectionError"), PlainText("str(e)")))

\* except Exception
FanoutException ==
    /\ InFanoutLoop
    /\ FanoutRecord([kind |-> "Exception"],
                    FanoutEntry(FailureTag("Exception"), PlainText("str(e)")))

\* return results
FanoutReturn ==
    /\ call = "fetch_api_data"
    /\ fa_pc = "loop"
    /\ Len(fa_outcomes) = Len(endpoint_list)
    /\ fa_pc' = "returned"
    /\ UNCHANGED <<endpoint_list, params_by_endpoint, fa_outcomes, results>>
    /\ UNCHANGED <<envVars, http_log, cgVars, umVars, otherThanAdapter>>

FanoutInit ==
    /\ endpoint_list \in EndpointLists
    /\ params_by_endpoint \in ParamsByEndpoint
    /\ fa_pc = "start"
    /\ fa_outcomes = <<>>
    /\ results = <<>>

NextFanout ==
    \/ FanoutBegin
    \/ FanoutResponse
    \/ FanoutTimeout
    \/ FanoutConnectionError
    \/ FanoutException
    \/ FanoutReturn

(***************************************************************************)
(* data_adapter.fetch_user_organization_mappings                           *)
(***************************************************************************)
UserIdSamples == {"u1", "audit-logs"}

UserIdLists == UNION {[1..k -> UserIdSamples] : k \in 0..MaxUsers}

Org(id, name) == JObj(("id" :> PlainText(id)) @@ ("name" :> PlainText(name)))

\* bodies of a 200 answer of /members/{user_id}/organizations
OrgBodies ==
    {JsonText(JObj("organizations" :> JList(<<Org("org-1", "Org One")>>))),
     JsonText(JObj("organizations" :> JList(<<JNum(3)>>))),
     JsonText(JObj(("organizations" :> JList(<<>>)) @@ ("id" :> PlainText("org-2")))),
     JsonText(JObj("total" :> JNum(0))),
     JsonText(JList(<<JObj("id" :> PlainText("org-3"))>>)),
     JsonText(JList(<<>>)),
     PlainText("<html>")}

OrgMapStatuses == {200, 404, 500}

\* endpoint_path = f"/members/{user_id}/organizations"
OrgMapPath(user_id) == <<"/", "members", "/", user_id, "/", "organizations">>

\* base_url = "https://api.devin.ai/v2/enterprise"; full_url = f"{base_url}{endpoint_path}"
OrgMapUrl(user_id) == ENTERPRISE_BASE_URL \o OrgMapPath(user_id)

CurrentUser == user_ids[Len(um_outcomes) + 1]

OrgMapRequest ==
    [site |-> "fetch_user_organization_mappings",
     url |-> OrgMapUrl(CurrentUser),
     path |-> OrgMapPath(CurrentUser),
     name |-> StrV(CurrentUser),
     params |-> None,
     auth |-> env_api_key]

Mapping(id, name, status, error) ==
    [organization_id |-> id, organization_name |-> name, status |-> status,
     error |-> error]

Unknown == PlainText("Unknown")

Unmapped(status, error) ==
    Mapping(PlainText("Unmapped"), PlainText("Unmapped"), status, StrV(error))

\* first_org.get(...) raises AttributeError when first_org is not a dict
FirstOrgMapping(first_org, status) ==
    IF IsDict(first_org)
      THEN Mapping(Get(first_org, "id", Unknown), Get(first_org, "name", Unknown),
                   status, None)
      ELSE Unmapped(StrV("ERROR"), "str(e)")

\* the branches on the shape of org_data of a 200 answer
MappingOf200(text) ==
    IF ~IsJsonText(text) THEN Unmapped(IntV(200), "JSON decode error")
    ELSE LET org_data == json_loads(text) IN
         IF IsDict(org_data)
           THEN IF HasKey(org_data, "organizations")
                   /\ Truthy(org_data.o["organizations"])
                  THEN FirstOrgMapping(org_data.o["organizations"].l[1], IntV(200))
                ELSE IF HasKey(org_data, "id")
                  THEN Mapping(Get(org_data, "id", Unknown),
                               Get(org_data, "name", Unknown), IntV(200), None)
                ELSE Mapping(Unknown, Unknown, IntV(200), None)
         ELSE IF IsList(org_data) /\ Truthy(org_data)
           THEN FirstOrgMapping(org_data.l[1], IntV(200))
         ELSE Mapping(Unknown, Unknown, IntV(200), None)

\* the mapping recorded for an answer with the given status
MappingOfResponse(status_code, text) ==
    IF status_code = 200 THEN MappingOf200(text)
    ELSE IF status_code = 404 THEN Unmapped(IntV(404), "User not found")
    ELSE Unmapped(IntV(status_code), "HTTP status")

\* one iteration of "for user_id in user_ids"
OrgMapRecord(outcome, mapping) ==
    /\ http_log' = Append(http_log, OrgMapRequest)
    /\ um_outcomes' = Append(um_outcomes, outcome)
    /\ user_org_mappings' = [u \in DOMAIN user_org_mappings \cup {CurrentUser} |->
                               IF u = CurrentUser THEN mapping
                               ELSE user_org_mappings[u]]
    /\ UNCHANGED <<user_ids, um_pc>>
    /\ UNCHANGED <<envVars, cgVars, faVars, otherThanAdapter>>

\* the prologue: the API key must be set
OrgMapBegin ==
    /\ call = "fetch_user_organization_mappings"
    /\ um_pc = "start"
    /\ um_pc' = IF env_api_key = None THEN "raised" ELSE "loop"
    /\ UNCHANGED <<user_ids, um_outcomes, user_org_mappings>>
    /\ UNCHANGED <<envVars, http_log, cgVars, faVars, otherThanAdapter>>

InOrgMapLoop ==
    /\ call = "fetch_user_organization_mappings"
    /\ um_pc = "loop"
    /\ Len(um_outcomes) < Len(user_ids)

\* requests.get returns a response
OrgMapResponse ==
    /\ InOrgMapLoop
    /\ \E status_code \in OrgMapStatuses, text \in OrgBodies :
         /\ status_code # 200 => text = PlainText("<html>")
         /\ OrgMapRecord([kind |-> "response", status_code |-> status_code],
                         MappingOfResponse(status_code, text))

\* except Timeout / ConnectionError / Exception
OrgMapFailure ==
    /\ InOrgMapLoop
    /\ \E kind \in {"Timeout", "ConnectionError", "Exception"} :
         OrgMapRecord([kind |-> kind],
                      Unmapped(FailureTag(kind),
                               IF kind = "Timeout" THEN "Request timeout" ELSE "str(e)"))

\* return user_org_mappings
OrgMapReturn ==
    /\ call = "fetch_user_organization_mappings"
    /\ um_pc = "loop"
    /\ Len(um_outcomes) = Len(user_ids)
    /\ um_pc' = "returned"
    /\ UNCHANGED <<user_ids, um_outcomes, user_org_mappings>>
    /\ UNCHANGED <<envVars, http_log, cgVars, faVars, otherThanAdapter>>

OrgMapInit ==
    /\ user_ids \in UserIdLists
    /\ um_pc = "start"
    /\ um_outcomes = <<>>
    /\ user_org_mappings = <<>>

NextOrgMap ==
    \/ OrgMapBegin
    \/ OrgMapResponse
    \/ OrgMapFailure
    \/ OrgMapReturn

FanoutIdle ==
    /\ endpoint_list = <<>>
    /\ params_by_endpoint = None
    /\ fa_pc = "idle"
    /\ fa_outcomes = <<>>
    /\ results = <<>>

OrgMapIdle ==
    /\ user_ids = <<>>
    /\ um_pc = "idle"
    /\ um_outcomes = <<>>
    /\ user_org_mappings = <<>>

AdapterIdle ==
    /\ call = "none"
    /\ env_api_key = None
    /\ http_log = <<>>
    /\ CognitionIdle
    /\ FanoutIdle
    /\ OrgMapIdle

EnvInit ==
    /\ env_api_key \in {None, StrV("env_key")}
    /\ http_log = <<>>

(***************************************************************************)
(* metrics_service.calculate_base_metrics and its older copy               *)
(* generate_report.calculate_base_metrics                                  *)
(***************************************************************************)
\* len(x) is defined for dicts, lists and strings; otherwise TypeError
HasLen(x) == x.j \in {"obj", "list", "str"}

PyLen(x) ==
    CASE x.j = "obj" -> Cardinality(DOMAIN x.o)
      [] x.j = "list" -> Len(x.l)
      [] OTHER -> 0

ByDate == JObj(("2024-09-01" :> JNum(3)) @@ ("2024-10-01" :> JNum(4)))

ByUser == JObj(("u1" :> JNum(5)) @@ ("u2" :> JNum(2)))

ByOrg == JObj("org-1" :> JNum(7))

ConsumptionBody ==
    JObj(("total_acus" :> JNum(7)) @@ ("consumption_by_date" :> ByDate)
         @@ ("consumption_by_user" :> ByUser) @@ ("consumption_by_org_id" :> ByOrg))

\* a body whose consumption_by_user is null: len() of it raises TypeError
ConsumptionBodyNullUsers ==
    JObj(("total_acus" :> JNum(7)) @@ ("consumption_by_user" :> JNull))

PrsBody ==
    JObj(("prs_opened" :> JNum(4)) @@ ("prs_closed" :> JNum(1)) @@ ("prs_merged" :> JNum(3)))

SessionsBody == JObj("sessions_count" :> JNum(6))

MembersBody == JObj("total" :> JNum(2))

FetchResult(status_code, response) ==
    [status_code |-> status_code, response |-> response]

\* the entries an endpoint can have in all_api_data: answers with status 200
\* and the given bodies, and answers and failures without status 200
FetchResultsWith(good, bodies) ==
    {FetchResult(IntV(200), r) : r \in bodies}
    \cup {FetchResult(IntV(404), PlainText("Not Found")),
          FetchResult(IntV(404), good),
          FetchResult(StrV("TIMEOUT"), PlainText("Request timeout"))}

ConsumptionResults ==
    FetchResultsWith(ConsumptionBody,
        {ConsumptionBody, EmptyObj, ConsumptionBodyNullUsers, JsonText(ConsumptionBody),
         JsonText(JList(<<>>)), PlainText("Not Found"), JList(<<>>)})

PrsResults ==
    FetchResultsWith(PrsBody,
        {PrsBody, EmptyObj, JsonText(PrsBody), JsonText(JNum(1)), PlainText("<html>")})

SessionsResults ==
    FetchResultsWith(SessionsBody,
        {SessionsBody, JsonText(SessionsBody), PlainText("<html>")})

MembersResults ==
    FetchResultsWith(MembersBody, {MembersBody, JsonText(MembersBody), PlainText("")})

\* an endpoint is in all_api_data or not
Entries(name, fetch_results) == {<<>>} \cup {name :> r : r \in fetch_results}

ApiDataSamples ==
    {c @@ p @@ ss @@ m :
        c \in Entries("consumption_daily", ConsumptionResults),
        p \in Entries("metrics_prs", PrsResults),
        ss \in Entries("metrics_sessions", SessionsResults),
        m \in Entries("members", MembersResults)}

\* MetricsConfig(price_per_acu=0.05) by default; the tests use 0.10
DEFAULT_PRICE_PER_ACU == 5

PriceSamples == {DEFAULT_PRICE_PER_ACU, 10}

ConfigIdle == price_per_acu = DEFAULT_PRICE_PER_ACU

ConfigInit == price_per_acu \in PriceSamples

\* all_api_data.get(name, {}) and the .get('status_code'), .get('response', {}) of it
EndpointResult(name) ==
    IF name \in DOMAIN all_api_data THEN all_api_data[name]
    ELSE FetchResult(None, EmptyObj)

\* if endpoint.get('status_code') == 200
StatusIs200_NotNone(fetch_result) == fetch_result.status_code # None

StatusIs200(fetch_result) == fetch_result.status_code = IntV(200)

\* if isinstance(response, str): response = json.loads(response)
\* [ok |-> FALSE] stands for the JSONDecodeError that the except clause catches
ParsedResponse(response) ==
    IF IsStr(response)
      THEN IF IsJsonText(response) THEN [ok |-> TRUE, value |-> json_loads(response)]
           ELSE [ok |-> FALSE]
      ELSE [ok |-> TRUE, value |-> response]

\* base_data[key] = {'value': value, 'source': source}
Fact(key, value, source) == key :> [value |-> value, source |-> source]

\* the dict the facts of an endpoint are read from, when there is one
SourceDict(name) ==
    LET fetch_result == EndpointResult(name)
        parsed == ParsedResponse(fetch_result.response)
    IN IF StatusIs200(fetch_result) /\ parsed.ok /\ IsDict(parsed.value)
         THEN [ok |-> TRUE, value |-> parsed.value]
         ELSE [ok |-> FALSE]

\* metrics_service: the consumption_daily block.  The facts are assigned in
\* order; len() of a value without length raises TypeError, which ends the
\* block with the facts assigned so far.
ConsumptionFacts ==
    LET src == SourceDict("consumption_daily") IN
    IF ~src.ok THEN <<>>
    ELSE LET d == src.value
             consumption_by_user == Get(d, "consumption_by_user", EmptyObj)
             consumption_by_org_id == Get(d, "consumption_by_org_id", EmptyObj)
             first ==
                 Fact("total_acus", Get(d, "total_acus", JNum(0)),
                      "consumption_daily.response.total_acus")
                 @@ Fact("consumption_by_date", Get(d, "consumption_by_date", EmptyObj),
                         "consumption_daily.response.consumption_by_date")
                 @@ Fact("consumption_by_user", consumption_by_user,
                         "consumption_daily.response.consumption_by_user")
                 @@ Fact("consumption_by_org_id", consumption_by_org_id,
                         "consumption_daily.response.consumption_by_org_id")
             user_rows ==
                 Fact("unique_users", JNum(PyLen(consumption_by_user)),
                      "consumption_daily.response.consumption_by_user (count)")
             orgs ==
                 Fact("num_organizations", JNum(PyLen(consumption_by_org_id)),
                      "consumption_daily.response.consumption_by_org_id (count keys)")
         IN IF ~HasLen(consumption_by_user) THEN first
            ELSE IF ~HasLen(consumption_by_org_id) THEN first @@ user_rows
            ELSE first @@ user_rows @@ orgs

\* generate_report: the consumption_daily block
ReportConsumptionFacts ==
    LET src == SourceDict("consumption_daily") IN
    IF ~src.ok THEN <<>>
    ELSE LET d == src.value
             consumption_by_user == Get(d, "consumption_by_user", EmptyObj)
             first ==
                 Fact("total_acus", Get(d, "total_acus", JNum(0)),
                      "consumption_daily.response.total_acus")
                 @@ Fact("consumption_by_date", Get(d, "consumption_by_date", EmptyObj),
                         "consumption_daily.response.consumption_by_date")
                 @@ Fact("consumption_by_user", consumption_by_user,
                         "consumption_daily.response.consumption_by_user")
             user_rows ==
                 Fact("unique_users", JNum(PyLen(consumption_by_user)),
                      "consumption_daily.response.consumption_by_user (count)")
         IN IF ~HasLen(consumption_by_user) THEN first ELSE first @@ user_rows

\* metrics_service: the metrics_prs block
PrsFacts ==
    LET src == SourceDict("metrics_prs") IN
    IF ~src.ok THEN <<>>
    ELSE Fact("prs_opened", Get(src.value, "prs_opened", JNum(0)),
              "metrics_prs.response.prs_opened")
         @@ Fact("prs_closed", Get(src.value, "prs_closed", JNum(0)),
                 "metrics_prs.response.prs_closed")
         @@ Fact("prs_merged", Get(src.value, "prs_merged", JNum(0)),
                 "metrics_prs.response.prs_merged")

\* generate_report: the metrics_prs block
ReportPrsFacts ==
    LET src == SourceDict("metrics_prs") IN
    IF ~src.ok THEN <<>>
    ELSE Fact("prs_merged", Get(src.value, "prs_merged", JNum(0)),
              "metrics_prs.response.prs_merged")

\* the metrics_sessions block (both copies)
SessionsFacts ==
    LET src == SourceDict("metrics_sessions") IN
    IF ~src.ok THEN <<>>
    ELSE Fact("sessions_count", Get(src.value, "sessions_count", JNum(0)),
              "metrics_sessions.response.sessions_count")

\* metrics_service: the members block
MembersFacts ==
    LET src == SourceDict("members") IN
    IF ~src.ok THEN <<>>
    ELSE Fact("user_count", Get(src.value, "total", JNum(0)), "members.response.total")

\* base_data['price_per_acu'] = {...}
PriceFact == Fact("price_per_acu", JNum(price_per_acu), "config.price_per_acu")

\* metrics_service.calculate_base_metrics
calculate_base_metrics ==
    ConsumptionFacts @@ PrsFacts @@ SessionsFacts @@ MembersFacts @@ PriceFact

\* generate_report.calculate_base_metrics
report_calculate_base_metrics ==
    ReportConsumptionFacts @@ ReportPrsFacts @@ SessionsFacts @@ PriceFact

CalculateBaseMetrics ==
    /\ base_pc = "start"
    /\ base_pc' = "done"
    /\ base_data' = calculate_base_metrics
    /\ UNCHANGED <<all_api_data, report_base_pc, report_base_data>>
    /\ UNCHANGED otherThanBase

ReportCalculateBaseMetrics ==
    /\ report_base_pc = "start"
    /\ report_base_pc' = "done"
    /\ report_base_data' = report_calculate_base_metrics
    /\ UNCHANGED <<all_api_data, base_pc, base_data>>
    /\ UNCHANGED otherThanBase

BaseIdle ==
    /\ all_api_data = <<>>
    /\ base_pc = "idle"
    /\ base_data = <<>>
    /\ report_base_pc = "idle"
    /\ report_base_data = <<>>

BaseInit ==
    /\ all_api_data \in ApiDataSamples
    /\ base_pc = "start"
    /\ base_data = <<>>
    /\ report_base_pc = "start"
    /\ report_base_data = <<>>

NextBase == CalculateBaseMetrics \/ ReportCalculateBaseMetrics

(***************************************************************************)
(* metrics_calculator.MetricsCalculator: load_data.  A number is an exact  *)
(* fraction in lowest terms; an amount of money is a fraction of the       *)
(* currency unit (price_per_acu is in hundredths, so it is divided by 100).*)
(***************************************************************************)
RECURSIVE GCD(_, _)
GCD(a, b) == IF b = 0 THEN a ELSE GCD(b, a % b)

\* the quotient n / d of Python, d > 0 and n >= 0
Rat(n, d) == [num |-> n \div GCD(n, d), den |-> d \div GCD(n, d)]

Num(n) == Rat(n, 1)

\* x * self.config.price_per_acu
TimesPrice(x) == Rat(x.num * price_per_acu, x.den * 100)

\* x / n for an integer n > 0
DivBy(x, n) == Rat(x.num, x.den * n)

RatPlus(x, y) == Rat(x.num * y.den + y.num * x.den, x.den * y.den)

RECURSIVE SumOfKeys(_, _)
SumOfKeys(d, keys) ==
    IF keys = {} THEN Num(0)
    ELSE LET k == CHOOSE k \in keys : TRUE
         IN  RatPlus(d[k], SumOfKeys(d, keys \ {k}))

RECURSIVE SumSeq(_)
SumSeq(seq) == IF seq = <<>> THEN 0 ELSE Head(seq) + SumSeq(Tail(seq))

\* dict.get(key, default) of a record read from the file
Field(d, key, default) == IF key \in DOMAIN d THEN d[key] ELSE default

\* session records as they stand in the file; S2 leaves out the optional
\* task_type and status, S4 leaves out the required numeric fields
S1 ==
    [session_id |-> "s1", user_email |-> "a@x", duration_minutes |-> 30,
     acus_consumed |-> 3, task_type |-> "feature", status |-> "completed"]

S2 == [session_id |-> "s2", user_email |-> "b@x", duration_minutes |-> 0, acus_consumed |-> 5]

S3 ==
    [session_id |-> "s3", user_email |-> "a@x", duration_minutes |-> 90,
     acus_consumed |-> 0, task_type |-> "bugfix", status |-> "failed"]

S4 == [session_id |-> "s4", user_email |-> "a@x", task_type |-> "feature"]

S5 ==
    [session_id |-> "s1", user_email |-> "b@x", duration_minutes |-> 7,
     acus_consumed |-> -1, task_type |-> "feature", status |-> "completed"]

SessionSamples == {S1, S2, S3, S4, S5}

\* user records; U2 leaves out department and role, U3 lists a@x again
U1 == [user_email |-> "a@x", department |-> "Engineering", role |-> "dev"]

U2 == [user_email |-> "b@x"]

U3 == [user_email |-> "a@x", department |-> "QA", role |-> "tester"]

U4 == [department |-> "QA"]

UserLists == {<<>>, <<U1>>, <<U1, U2>>, <<U1, U3>>, <<U4>>}

MaxSessions == 2

SessionLists == UNION {[1..n -> SessionSamples] : n \in 0..MaxSessions}

ReportingPeriod == [start_date |-> "2024-09-01", end_date |-> "2024-09-30", month |-> "2024-09"]

\* what open() and json.load() make of the file
MissingFile == [kind |-> "missing"]

InvalidJsonFile == [kind |-> "invalid_json"]

JsonFile(raw) == [kind |-> "json", raw |-> raw]

RawSamples ==
    {[sessions |-> ss, user_details |-> us] : ss \in SessionLists, us \in UserLists}
    \cup {[sessions |-> ss, user_details |-> <<U1, U2>>, reporting_period |-> ReportingPeriod] :
            ss \in {<<S1, S2>>, <<S1, S3>>}}
    \cup {[organization |-> "acme"]}

FileSamples == {MissingFile, InvalidJsonFile} \cup {JsonFile(raw) : raw \in RawSamples}

\* validators.SessionData: four required fields, the numeric ones >= 0
SessionDataValid_Lenient(raw) == {"session_id", "user_email"} \subseteq DOMAIN raw

SessionDataValid(raw) ==
    /\ {"session_id", "user_email", "duration_minutes", "acus_consumed"} \subseteq DOMAIN raw
    /\ raw.duration_minutes >= 0
    /\ raw.acus_consumed >= 0

\* SessionData.model_dump(): every field, the optional ones with their default
SessionDump(raw) ==
    [session_id |-> raw.session_id, user_email |-> raw.user_email,
     duration_minutes |-> raw.duration_minutes, acus_consumed |-> raw.acus_consumed,
     task_type |-> Field(raw, "task_type", "unknown"),
     status |-> Field(raw, "status", "unknown")]

\* validators.UserDetail
UserDetailValid(raw) == "user_email" \in DOMAIN raw

UserDump(raw) ==
    [user_email |-> raw.user_email, department |-> Field(raw, "department", "Unknown"),
     role |-> Field(raw, "role", "Unknown")]

\* validators.UsageData: sessions and user_details default to empty lists
RawSessions(raw) == Field(raw, "sessions", <<>>)

RawUsers(raw) == Field(raw, "user_details", <<>>)

UsageDataValid(raw) ==
    /\ \A i \in DOMAIN RawSessions(raw) : SessionDataValid(RawSessions(raw)[i])
    /\ \A i \in DOMAIN RawUsers(raw) : UserDetailValid(RawUsers(raw)[i])

DataValidationError(reason) == [raised |-> "DataValidationError", reason |-> reason]

MetricsCalculationError(reason) == [raised |-> "MetricsCalculationError", reason |-> reason]

LoadDataFails(out) ==
    /\ calc_pc' = "load_failed"
    /\ calc_out' = out
    /\ UNCHANGED <<data, sessions, users>>

\* MetricsCalculator.load_data(json_file_path)
LoadData ==
    /\ calc_pc = "new"
    /\ \/ /\ file.kind = "missing"
          /\ LoadDataFails(DataValidationError("Data file not found"))
       \/ /\ file.kind = "invalid_json"
          /\ LoadDataFails(DataValidationError("Invalid JSON in data file"))
       \/ /\ file.kind = "json"
          /\ ~UsageDataValid(file.raw)
          /\ LoadDataFails(DataValidationError("Data validation failed"))
       \/ /\ file.kind = "json"
          /\ UsageDataValid(file.raw)
          /\ data' = file.raw
          /\ sessions' = [i \in DOMAIN RawSessions(file.raw) |->
                            SessionDump(RawSessions(file.raw)[i])]
          /\ users' = [i \in DOMAIN RawUsers(file.raw) |-> UserDump(RawUsers(file.raw)[i])]
          /\ calc_pc' = "loaded"
          /\ calc_out' = None
    /\ UNCHANGED <<file, broken, metrics, failed_metrics, invoked>>
    /\ UNCHANGED otherThanCalc

(***************************************************************************)
(* MetricsCalculator: the twenty calculate_* methods.  A call either       *)
(* returns a value or raises; a method named in broken has been replaced   *)
(* by one that raises, and a method that calls it raises with it.          *)
(***************************************************************************)
Ok(v) == [ok |-> TRUE, value |-> v]

Raise == [ok |-> FALSE]

\* the method as the calculator object holds it
Method(name, body) == IF name \in broken THEN Raise ELSE body

\* the rest of a method body after a call it makes
Then(r, rest(_)) == IF r.ok THEN rest(r.value) ELSE Raise

acus_consumed(session) == Field(session, "acus_consumed", 0)

duration_minutes(session) == Field(session, "duration_minutes", 0)

user_email(session) == session.user_email

task_type(session) == Field(session, "task_type", "unknown")

\* sum(value(session) for session in self.sessions if key(session) == k)
SumWhere(key(_), k, value(_)) ==
    SumSeq([i \in 1..Len(sessions) |->
                IF key(sessions[i]) = k THEN value(sessions[i]) ELSE 0])

\* a defaultdict(int) filled in one pass over self.sessions
GroupBy(key(_), value(_)) ==
    [k \in {key(sessions[i]) : i \in 1..Len(sessions)} |-> Num(SumWhere(key, k, value))]

One(session) == 1

SameKey(session) == "all"

\* the groups left in ACUs
CostOf_Unpriced(d) == d

\* {k: v * self.config.price_per_acu for k, v in d.items()}
CostOf(d) == [k \in DOMAIN d |-> TimesPrice(d[k])]

\* user_dept_map.get(user_email, 'Unknown'); a later entry of self.users
\* replaces an earlier one of the same user
department(session) ==
    LET listed == {i \in 1..Len(users) : users[i].user_email = session.user_email}
    IN  IF listed = {} THEN "Unknown"
        ELSE users[CHOOSE i \in listed : \A j \in listed : j <= i].department

calculate_total_monthly_cost ==
    Method("calculate_total_monthly_cost",
           Ok(TimesPrice(Num(SumWhere(SameKey, "all", acus_consumed)))))

calculate_total_acus ==
    Method("calculate_total_acus", Ok(Num(SumWhere(SameKey, "all", acus_consumed))))

calculate_cost_per_user ==
    Method("calculate_cost_per_user", Ok(CostOf(GroupBy(user_email, acus_consumed))))

\* a later session replaces an earlier one of the same session_id
calculate_acus_per_session ==
    Method("calculate_acus_per_session",
           Ok([id \in {sessions[i].session_id : i \in 1..Len(sessions)} |->
                LET same == {i \in 1..Len(sessions) : sessions[i].session_id = id}
                IN  Num(acus_consumed(sessions[CHOOSE i \in same : \A j \in same : j <= i]))]))

\* the division without the guard on an empty list: ZeroDivisionError
calculate_average_acus_per_session_Unguarded ==
    Method("calculate_average_acus_per_session",
           Then(calculate_total_acus, LAMBDA total_acus :
                    IF sessions = <<>> THEN Raise ELSE Ok(DivBy(total_acus, Len(sessions)))))

calculate_average_acus_per_session ==
    Method("calculate_average_acus_per_session",
           IF sessions = <<>> THEN Ok(Num(0))
           ELSE Then(calculate_total_acus, LAMBDA total_acus :
                        Ok(DivBy(total_acus, Len(sessions)))))

calculate_total_sessions == Method("calculate_total_sessions", Ok(Num(Len(sessions))))

calculate_sessions_per_user == Method("calculate_sessions_per_user", Ok(GroupBy(user_email, One)))

calculate_total_duration_minutes ==
    Method("calculate_total_duration_minutes",
           Ok(Num(SumWhere(SameKey, "all", duration_minutes))))

calculate_average_session_duration ==
    Method("calculate_average_session_duration",
           IF sessions = <<>> THEN Ok(Num(0))
           ELSE Then(calculate_total_duration_minutes, LAMBDA total_duration :
                        Ok(DivBy(total_duration, Len(sessions)))))

calculate_acus_per_minute ==
    Method("calculate_acus_per_minute",
           Then(calculate_total_duration_minutes, LAMBDA total_duration :
                IF total_duration = Num(0) THEN Ok(Num(0))
                ELSE Then(calculate_total_acus, LAMBDA total_acus :
                            Ok(DivBy(total_acus, total_duration.num)))))

calculate_cost_per_minute ==
    Method("calculate_cost_per_minute",
           Then(calculate_acus_per_minute, LAMBDA acus_per_minute :
                Ok(TimesPrice(acus_per_minute))))

calculate_unique_users ==
    Method("calculate_unique_users",
           Ok(Num(Cardinality({user_email(sessions[i]) : i \in 1..Len(sessions)}))))

calculate_sessions_by_task_type ==
    Method("calculate_sessions_by_task_type", Ok(GroupBy(task_type, One)))

calculate_acus_by_task_type ==
    Method("calculate_acus_by_task_type", Ok(GroupBy(task_type, acus_consumed)))

calculate_cost_by_task_type ==
    Method("calculate_cost_by_task_type",
           Then(calculate_acus_by_task_type, LAMBDA acus_by_task : Ok(CostOf(acus_by_task))))

calculate_sessions_by_department ==
    Method("calculate_sessions_by_department", Ok(GroupBy(department, One)))

calculate_acus_by_department ==
    Method("calculate_acus_by_department", Ok(GroupBy(department, acus_consumed)))

calculate_cost_by_department ==
    Method("calculate_cost_by_department",
           Then(calculate_acus_by_department, LAMBDA acus_by_dept : Ok(CostOf(acus_by_dept))))

calculate_average_cost_per_user ==
    Method("calculate_average_cost_per_user",
           Then(calculate_unique_users, LAMBDA unique_users :
                IF unique_users = Num(0) THEN Ok(Num(0))
                ELSE Then(calculate_total_monthly_cost, LAMBDA total_cost :
                            Ok(DivBy(total_cost, unique_users.num)))))

\* total_duration_hours = total_duration_minutes / 60
calculate_efficiency_ratio ==
    Method("calculate_efficiency_ratio",
           Then(calculate_total_duration_minutes, LAMBDA total_duration :
                LET total_duration_hours == DivBy(total_duration, 60)
                IN  IF total_duration_hours = Num(0) THEN Ok(Num(0))
                    ELSE Then(calculate_total_acus, LAMBDA total_acus :
                            Ok(Rat(total_acus.num * total_duration_hours.den,
                                   total_duration_hours.num)))))

(***************************************************************************)
(* MetricsCalculator.calculate_all_metrics.                                *)
(***************************************************************************)
metric_methods ==
    << <<"01_total_monthly_cost", "calculate_total_monthly_cost">>,
       <<"02_total_acus", "calculate_total_acus">>,
       <<"03_cost_per_user", "calculate_cost_per_user">>,
       <<"04_acus_per_session", "calculate_acus_per_session">>,
       <<"05_average_acus_per_session", "calculate_average_acus_per_session">>,
       <<"06_total_sessions", "calculate_total_sessions">>,
       <<"07_sessions_per_user", "calculate_sessions_per_user">>,
       <<"08_total_duration_minutes", "calculate_total_duration_minutes">>,
       <<"09_average_session_duration", "calculate_average_session_duration">>,
       <<"10_acus_per_minute", "calculate_acus_per_minute">>,
       <<"11_cost_per_minute", "calculate_cost_per_minute">>,
       <<"12_unique_users", "calculate_unique_users">>,
       <<"13_sessions_by_task_type", "calculate_sessions_by_task_type">>,
       <<"14_acus_by_task_type", "calculate_acus_by_task_type">>,
       <<"15_cost_by_task_type", "calculate_cost_by_task_type">>,
       <<"16_sessions_by_department", "calculate_sessions_by_department">>,
       <<"17_acus_by_department", "calculate_acus_by_department">>,
       <<"18_cost_by_department", "calculate_cost_by_department">>,
       <<"19_average_cost_per_user", "calculate_average_cost_per_user">>,
       <<"20_efficiency_ratio", "calculate_efficiency_ratio">> >>

MethodNames == {metric_methods[i][2] : i \in 1..Len(metric_methods)}

\* method()
Call(method) ==
    CASE method = "calculate_total_monthly_cost" -> calculate_total_monthly_cost
      [] method = "calculate_total_acus" -> calculate_total_acus
      [] method = "calculate_cost_per_user" -> calculate_cost_per_user
      [] method = "calculate_acus_per_session" -> calculate_acus_per_session
      [] method = "calculate_average_acus_per_session" -> calculate_average_acus_per_session
      [] method = "calculate_total_sessions" -> calculate_total_sessions
      [] method = "calculate_sessions_per_user" -> calculate_sessions_per_user
      [] method = "calculate_total_duration_minutes" -> calculate_total_duration_minutes
      [] method = "calculate_average_session_duration" -> calculate_average_session_duration
      [] method = "calculate_acus_per_minute" -> calculate_acus_per_minute
      [] method = "calculate_cost_per_minute" -> calculate_cost_per_minute
      [] method = "calculate_unique_users" -> calculate_unique_users
      [] method = "calculate_sessions_by_task_type" -> calculate_sessions_by_task_type
      [] method = "calculate_acus_by_task_type" -> calculate_acus_by_task_type
      [] method = "calculate_cost_by_task_type" -> calculate_cost_by_task_type
      [] method = "calculate_sessions_by_department" -> calculate_sessions_by_department
      [] method = "calculate_acus_by_department" -> calculate_acus_by_department
      [] method = "calculate_cost_by_department" -> calculate_cost_by_department
      [] method = "calculate_average_cost_per_user" -> calculate_average_cost_per_user
      [] method = "calculate_efficiency_ratio" -> calculate_efficiency_ratio

\* self.config.to_dict()
ConfigDict ==
    [price_per_acu |-> Rat(price_per_acu, 100), currency |-> "USD",
     working_hours_per_day |-> 8, working_days_per_month |-> 22]

\* d[key] = value
SetItem(d, key, value) == [k \in DOMAIN d \cup {key} |-> IF k = key THEN value ELSE d[k]]

\* the except branch of the loop: metrics[metric_key] = None
FailedSlot_Absent(m, key) == m

FailedSlot(m, key) == SetItem(m, key, None)

\* a loop that walks metric_methods from its end
CurrentMetric_Reversed == metric_methods[Len(metric_methods) - Len(invoked)]

\* the entry of metric_methods the loop is at
CurrentMetric == metric_methods[Len(invoked) + 1]

InMetricLoop == calc_pc = "loop" /\ Len(invoked) < Len(metric_methods)

\* calculate_all_metrics is entered; without loaded data it raises
CalcBegin ==
    /\ calc_pc \in {"new", "loaded", "load_failed"}
    /\ IF data = None
       THEN /\ calc_pc' = "raised"
            /\ calc_out' = MetricsCalculationError("No data loaded")
       ELSE /\ calc_pc' = "loop"
            /\ calc_out' = None
    /\ metrics' = <<>>
    /\ failed_metrics' = <<>>
    /\ invoked' = <<>>
    /\ UNCHANGED <<file, broken, data, sessions, users>>
    /\ UNCHANGED otherThanCalc

\* one pass of the loop whose method returns
MetricReturns ==
    /\ InMetricLoop
    /\ Call(CurrentMetric[2]).ok
    /\ metrics' = SetItem(metrics, CurrentMetric[1], Call(CurrentMetric[2]).value)
    /\ invoked' = Append(invoked, CurrentMetric[2])
    /\ UNCHANGED <<file, broken, data, sessions, users, calc_pc, failed_metrics, calc_out>>
    /\ UNCHANGED otherThanCalc

\* one pass of the loop whose method raises
MetricRaises ==
    /\ InMetricLoop
    /\ ~Call(CurrentMetric[2]).ok
    /\ failed_metrics' = Append(failed_metrics, CurrentMetric[1])
    /\ metrics' = FailedSlot(metrics, CurrentMetric[1])
    /\ invoked' = Append(invoked, CurrentMetric[2])
    /\ UNCHANGED <<file, broken, data, sessions, users, calc_pc, calc_out>>
    /\ UNCHANGED otherThanCalc

\* after the loop: the result dictionary
CalcReturn ==
    /\ calc_pc = "loop"
    /\ Len(invoked) = Len(metric_methods)
    /\ calc_pc' = "returned"
    /\ calc_out' = [config |-> ConfigDict,
                    reporting_period |-> Field(data, "reporting_period", <<>>),
                    metrics |-> metrics]
    /\ UNCHANGED <<file, broken, data, sessions, users, metrics, failed_metrics, invoked>>
    /\ UNCHANGED otherThanCalc

MaxBroken == 2

RECURSIVE MethodSetsUpTo(_)
MethodSetsUpTo(n) ==
    IF n = 0 THEN {{}}
    ELSE MethodSetsUpTo(n - 1)
            \cup {b \cup {m} : b \in MethodSetsUpTo(n - 1), m \in MethodNames}

\* the sets of replaced methods: a few of them, or every one
BrokenSamples == MethodSetsUpTo(MaxBroken) \cup {MethodNames}

\* the files the replaced methods are tried on
FaultFiles ==
    {JsonFile([sessions |-> <<S1, S2>>, user_details |-> <<U1, U2>>,
               reporting_period |-> ReportingPeriod]),
     JsonFile([organization |-> "acme"])}

\* MetricsCalculator.__init__
CalcNew ==
    /\ data = None
    /\ sessions = <<>>
    /\ users = <<>>
    /\ metrics = <<>>
    /\ failed_metrics = <<>>
    /\ invoked = <<>>
    /\ calc_out = None

CalcIdle ==
    /\ file = MissingFile
    /\ broken = {}
    /\ calc_pc = "idle"
    /\ CalcNew

CalcInit ==
    /\ \/ file \in FileSamples /\ broken = {}
       \/ file \in FaultFiles /\ broken \in BrokenSamples
    /\ calc_pc = "new"
    /\ CalcNew

NextCalc == LoadData \/ CalcBegin \/ MetricReturns \/ MetricRaises \/ CalcReturn

(***************************************************************************)
(* metrics_service / generate_report: the monthly helpers.  A date string  *)
(* is the sequence of its characters; the clock and a parsed date are a    *)
(* year and a month (the day and the time of day are never used).          *)
(***************************************************************************)
Digits == <<"0", "1", "2", "3", "4", "5", "6", "7", "8", "9">>

TwoDigits(n) == <<Digits[(n \div 10) + 1], Digits[(n % 10) + 1]>>

FourDigits(n) == TwoDigits(n \div 100) \o TwoDigits(n % 100)

IsDigits(str) == \A i \in 1..Len(str) : \E d \in 1..10 : str[i] = Digits[d]

RECURSIVE DigitsValue(_)
DigitsValue(str) ==
    IF str = <<>> THEN 0
    ELSE 10 * DigitsValue(SubSeq(str, 1, Len(str) - 1))
         + ((CHOOSE d \in 1..10 : str[Len(str)] = Digits[d]) - 1)

\* 'YYYY-MM-DD'
IsoDate(year, month, day) ==
    FourDigits(year) \o <<"-">> \o TwoDigits(month) \o <<"-">> \o TwoDigits(day)

\* dt.strftime("%Y-%m")
strftime_Ym(dt) == FourDigits(dt.year) \o <<"-">> \o TwoDigits(dt.month)

\* dt - relativedelta(months=1)
PreviousMonth(dt) ==
    IF dt.month = 1 THEN [year |-> dt.year - 1, month |-> 12]
    ELSE [year |-> dt.year, month |-> dt.month - 1]

DaysInMonth(year, month) ==
    IF month \in {4, 6, 9, 11} THEN 30
    ELSE IF month # 2 THEN 31
    ELSE IF year % 4 = 0 /\ (year % 100 # 0 \/ year % 400 = 0) THEN 29
    ELSE 28

\* datetime.strptime(text, '%Y-%m-%d') of a zero-padded text: the date, or
\* ValueError ([ok |-> FALSE]) for a text of another shape
strptime_Ymd(text) ==
    IF /\ Len(text) = 10
       /\ text[5] = "-" /\ text[8] = "-"
       /\ IsDigits(SubSeq(text, 1, 4)) /\ IsDigits(SubSeq(text, 6, 7))
       /\ IsDigits(SubSeq(text, 9, 10))
       /\ DigitsValue(SubSeq(text, 6, 7)) \in 1..12
       /\ DigitsValue(SubSeq(text, 9, 10)) \in
            1..DaysInMonth(DigitsValue(SubSeq(text, 1, 4)), DigitsValue(SubSeq(text, 6, 7)))
    THEN [ok |-> TRUE,
          value |-> [year |-> DigitsValue(SubSeq(text, 1, 4)),
                     month |-> DigitsValue(SubSeq(text, 6, 7))]]
    ELSE [ok |-> FALSE]

IsNumber(x) == x.j = "num"

calculate_monthly_acus_AllMonths(consumption_by_date, month_prefix_str) ==
    [ok |-> TRUE,
     value |-> SumOfKeys([date_str \in DOMAIN consumption_by_date.o |->
                              Num(consumption_by_date.o[date_str].n)],
                         DOMAIN consumption_by_date.o)]

\* calculate_monthly_acus(consumption_by_date, month_prefix_str) and
\* generate_report.calculate_monthly_acus_from_daily, which has the same
\* body: the total, or the exception of .items() on a value that is no dict
\* and of += on an entry of the month that is no number
calculate_monthly_acus(consumption_by_date, month_prefix_str) ==
    IF ~IsDict(consumption_by_date) THEN [ok |-> FALSE, error |-> "AttributeError"]
    ELSE LET of_month == {date_str \in DOMAIN consumption_by_date.o :
                                startswith(date_str, month_prefix_str)}
         IN  IF \E date_str \in of_month : ~IsNumber(consumption_by_date.o[date_str])
             THEN [ok |-> FALSE, error |-> "TypeError"]
             ELSE [ok |-> TRUE,
                   value |-> SumOfKeys([date_str \in of_month |->
                                            Num(consumption_by_date.o[date_str].n)],
                                       of_month)]

(***************************************************************************)
(* calculate_finops_metrics.  An entry of the catalog keeps its value,     *)
(* formula, the source_path of each of its sources_used, reason,           *)
(* external_data_required and category; raw_value and raw_data_value, which *)
(* repeat the inputs, are left out.  A formula and a reason are the        *)
(* sequence of the parts of the string; a value that is a text is Txt.     *)
(***************************************************************************)
Txt(s) == [txt |-> s]

Times(x, y) == Rat(x.num * y.num, x.den * y.den)

Minus(x, y) == Rat(x.num * y.den - y.num * x.den, x.den * y.den)

\* what a division by zero leaves in place of a quotient
ZeroDivisionError == [num |-> 0, den |-> 0]

\* x / y
Div(x, y) == IF y.num = 0 THEN ZeroDivisionError ELSE Rat(x.num * y.den, x.den * y.num)

\* round(x, 2), ties to the even hundredth
Round2(x) ==
    IF x = ZeroDivisionError THEN x ELSE
    LET n == x.num * 100
        q == n \div x.den
        r == n - q * x.den
    IN  Rat(IF 2 * r < x.den THEN q
            ELSE IF 2 * r > x.den THEN q + 1
            ELSE IF q % 2 = 0 THEN q ELSE q + 1, 100)

\* a number of the catalog as Python holds it; anything else stays as it is
PyVal(x) == IF IsNumber(x) THEN Num(x.n) ELSE x

calculate_cost_from_acus(acus, cost_per_acu) == Round2(Times(acus, cost_per_acu))

\* get_value(key, default) and get_source(key) of calculate_finops_metrics
get_value(base, key, default) == IF key \in DOMAIN base THEN base[key].value ELSE default

get_source(base, key) == IF key \in DOMAIN base THEN base[key].source ELSE "N/A"

Computable(key, value, formula, sources, category) ==
    key :> [value |-> value, formula |-> formula, sources_used |-> sources,
            category |-> category]

NotComputable(key, reason, required, category) ==
    key :> [value |-> Txt("N/A"), reason |-> reason, external_data_required |-> required,
            category |-> category]

COST_VISIBILITY == "COST VISIBILITY AND TRANSPARENCY"

GuardedRatio_Unguarded(x, y) == Div(x, y)

\* x / y if y > 0 else 0
GuardedRatio(x, y) == IF y.num > 0 THEN Div(x, y) ELSE Num(0)

\* the base values read before the monthly-trend block (lines 192-205); the
\* multiplication and the comparisons with 0 raise TypeError on a value that
\* is no number, and a division raises what it raises
Preamble(base) ==
    LET total_acus == get_value(base, "total_acus", JNum(0))
        price == get_value(base, "price_per_acu", JNum(0))
        prs_merged == get_value(base, "prs_merged", JNum(0))
        sessions_count == get_value(base, "sessions_count", JNum(0))
    IN  IF \E x \in {total_acus, price, prs_merged, sessions_count} : ~IsNumber(x)
        THEN [ok |-> FALSE, error |-> "TypeError"]
        ELSE LET acus == Num(total_acus.n)
                 price_per == Rat(price.n, 100)
                 prs == Num(prs_merged.n)
                 count == Num(sessions_count.n)
                 total_cost == Times(acus, price_per)
                 ratios == <<GuardedRatio(total_cost, prs), GuardedRatio(acus, prs),
                             GuardedRatio(acus, count), GuardedRatio(prs, acus)>>
             IN  IF \E i \in 1..4 : ratios[i] = ZeroDivisionError
                 THEN [ok |-> FALSE, error |-> "ZeroDivisionError"]
                 ELSE [ok |-> TRUE, total_acus |-> acus, price_per_acu |-> price_per,
                       total_cost |-> total_cost, prs_merged |-> prs,
                       sessions_count |-> count,
                       cost_per_pr |-> ratios[1], acus_per_pr |-> ratios[2],
                       acus_per_session |-> ratios[3], prs_per_acu |-> ratios[4]]

\* the monthly figures both copies compute first in the block, for the month
\* of the reference date and the month before it
MonthlyFigures(base, pre, reference_dt, rounded) ==
    LET consumption_by_date == get_value(base, "consumption_by_date", EmptyObj)
        current_month_prefix == strftime_Ym(reference_dt)
        previous_month_prefix == strftime_Ym(PreviousMonth(reference_dt))
        current == calculate_monthly_acus(consumption_by_date, current_month_prefix)
        prev == calculate_monthly_acus(consumption_by_date, previous_month_prefix)
    IN  IF ~current.ok THEN current
        ELSE IF ~prev.ok THEN prev
        ELSE LET cost(acus) == IF rounded THEN calculate_cost_from_acus(acus, pre.price_per_acu)
                                ELSE Times(acus, pre.price_per_acu)
                 current_month_cost == cost(current.value)
                 prev_month_cost == cost(prev.value)
                 absolute_difference == Minus(current_month_cost, prev_month_cost)
             IN  [ok |-> TRUE,
                  current_month_prefix |-> current_month_prefix,
                  previous_month_prefix |-> previous_month_prefix,
                  current_month_acus |-> current.value, prev_month_acus |-> prev.value,
                  current_month_cost |-> current_month_cost,
                  prev_month_cost |-> prev_month_cost,
                  absolute_difference |-> absolute_difference,
                  percentage_value |->
                      IF prev_month_cost.num > 0
                      THEN Round2(Times(Div(absolute_difference, prev_month_cost), Num(100)))
                      ELSE Txt("N/A (Costo Base Cero)"),
                  percentage_formula |->
                      IF prev_month_cost.num > 0
                      THEN <<"(Current Cost - Previous Cost) / Previous Cost * 100">>
                      ELSE <<"Cannot calculate (Previous Cost is zero)">>]

\* str(x) of a price given in hundredths, as the f-strings of the formulas print it
FloatText(hundredths) ==
    <<Digits[(hundredths \div 100) + 1], ".">>
    \o (IF hundredths % 10 = 0 THEN <<Digits[((hundredths \div 10) % 10) + 1]>>
        ELSE TwoDigits(hundredths % 100))

\* round(x / y, 2) if y > 0 else 0.00
RoundedRatio(x, y) == IF y.num > 0 THEN Round2(Div(x, y)) ELSE Num(0)

TOTAL_ACUS_PATH == "consumption_daily.response.total_acus"

PRS_TOTALES_PATH == "Calculated (prs_opened + prs_closed + prs_merged)"

\* metrics_service, lines 240-344: the entries assigned once the monthly
\* figures are there (the multiplication sign of the formulas is written x)
TrendEntries(base, pre, m) ==
    LET price_text == FloatText(get_value(base, "price_per_acu", JNum(0)).n)
        price_source == get_source(base, "price_per_acu")
        costs == <<"Calculated from Coste Mes", "Calculated from Coste Mes Anterior">>
        E(key, value, formula, sources) ==
            Computable(key, value, formula, sources, COST_VISIBILITY)
    IN  E("ACUs Mes", Round2(m.current_month_acus),
          <<"Python Function (calculate_monthly_acus) filtering data for ">>
              \o m.current_month_prefix,
          <<"consumption_daily.consumption_by_date">>)
        @@ E("ACUs Mes Anterior", Round2(m.prev_month_acus),
             <<"Python Function (calculate_monthly_acus) filtering data for ">>
                 \o m.previous_month_prefix,
             <<"consumption_daily.consumption_by_date">>)
        @@ E("Coste Mes", m.current_month_cost,
             <<"Python Function (calculate_cost_from_acus): ACUs Mes x ">> \o price_text
                 \o <<" (COST_PER_ACU)">>,
             <<"Python Function (calculate_monthly_acus)", price_source>>)
        @@ E("Coste Mes Anterior", m.prev_month_cost,
             <<"Python Function (calculate_cost_from_acus): ACUs Mes Anterior x ">>
                 \o price_text \o <<" (COST_PER_ACU)">>,
             <<"Python Function (calculate_monthly_acus)", price_source>>)
        @@ E("Diferencia (Mes Actual - Mes Anterior)", Round2(m.absolute_difference),
             <<"Coste Mes - Coste Mes Anterior">>, costs)
        @@ E("Variacion Porcentual", m.percentage_value, m.percentage_formula, costs)
        @@ E("ACUs consumidos totales", Round2(pre.total_acus),
             <<"Direct extraction from JSON">>, <<TOTAL_ACUS_PATH>>)
        @@ E("Coste consumo total",
             Round2(calculate_cost_from_acus(pre.total_acus, pre.price_per_acu)),
             <<"Python Function (calculate_cost_from_acus): Total ACUs x ">> \o price_text
                 \o <<" (COST_PER_ACU)">>,
             <<TOTAL_ACUS_PATH, price_source>>)
        @@ E("Numero de usuarios", PyVal(get_value(base, "user_count", JNum(0))),
             <<"Direct extraction from JSON">>, <<get_source(base, "user_count")>>)
        @@ E("Numero de sesiones", pre.sessions_count,
             <<"Direct extraction from JSON">>, <<get_source(base, "sessions_count")>>)

\* metrics_service, lines 346-488: the averages per user, session and
\* organization; user_count is a number here
AverageEntries(base, pre, m) ==
    LET price_source == get_source(base, "price_per_acu")
        user_source == get_source(base, "user_count")
        sessions_source == get_source(base, "sessions_count")
        orgs_source == get_source(base, "num_organizations")
        user_count == Num(get_value(base, "user_count", JNum(0)).n)
        num_organizations == Num(get_value(base, "num_organizations", JNum(0)).n)
        total_cost_calculated == calculate_cost_from_acus(pre.total_acus, pre.price_per_acu)
        E(key, value, formula, sources) ==
            Computable(key, value, formula, sources, COST_VISIBILITY)
    IN  E("Media total ACUs por usuario", RoundedRatio(pre.total_acus, user_count),
          <<"Total ACUs / Numero de Usuarios">>, <<TOTAL_ACUS_PATH, user_source>>)
        @@ E("Media total Coste por usuario", RoundedRatio(total_cost_calculated, user_count),
             <<"Total Cost / Numero de Usuarios">>,
             <<TOTAL_ACUS_PATH, price_source, user_source>>)
        @@ E("Media mes ACUs por usuario", RoundedRatio(m.current_month_acus, user_count),
             <<"ACUs Mes / Numero de Usuarios">>,
             <<"Python Function (calculate_monthly_acus)", user_source>>)
        @@ E("Media mes Coste por usuario", RoundedRatio(m.current_month_cost, user_count),
             <<"Coste Mes / Numero de Usuarios">>,
             <<"Python Function (calculate_monthly_acus)", price_source, user_source>>)
        @@ E("Media Total ACUs por sesion", RoundedRatio(pre.total_acus, pre.sessions_count),
             <<"Total ACUs / Numero de Sesiones">>, <<TOTAL_ACUS_PATH, sessions_source>>)
        @@ E("Media Total Coste por sesion",
             RoundedRatio(total_cost_calculated, pre.sessions_count),
             <<"Total Cost / Numero de Sesiones">>,
             <<TOTAL_ACUS_PATH, price_source, sessions_source>>)
        @@ E("Numero de organizaciones", num_organizations,
             <<"Count keys in consumption_by_org_id dictionary">>, <<orgs_source>>)
        @@ E("Coste por organizacion", RoundedRatio(total_cost_calculated, num_organizations),
             <<"Coste Total / Numero de Organizaciones">>,
             <<TOTAL_ACUS_PATH, price_source, orgs_source>>)
        @@ E("Coste por grupo (IdP)", RoundedRatio(total_cost_calculated, num_organizations),
             <<"Coste Total / Numero de Organizaciones">>,
             <<TOTAL_ACUS_PATH, price_source, orgs_source>>)

\* metrics_service, lines 490-649: the pull-request entries; prs_opened and
\* prs_closed are numbers here
PrEntries(base, pre) ==
    LET price_source == get_source(base, "price_per_acu")
        merged_source == get_source(base, "prs_merged")
        prs_opened == Num(get_value(base, "prs_opened", JNum(0)).n)
        prs_closed == Num(get_value(base, "prs_closed", JNum(0)).n)
        prs_totales == RatPlus(RatPlus(prs_opened, prs_closed), pre.prs_merged)
        total_cost_calculated == calculate_cost_from_acus(pre.total_acus, pre.price_per_acu)
        E(key, value, formula, sources) ==
            Computable(key, value, formula, sources, COST_VISIBILITY)
    IN  E("Numero de PRs abiertos", prs_opened, <<"Direct extraction from JSON">>,
          <<get_source(base, "prs_opened")>>)
        @@ E("Numero de PRs cerradas", prs_closed, <<"Direct extraction from JSON">>,
             <<get_source(base, "prs_closed")>>)
        @@ E("Numero de PRs mergeadas", pre.prs_merged, <<"Direct extraction from JSON">>,
             <<merged_source>>)
        @@ E("Numero de PRs totales", prs_totales,
             <<"Sum of PRs abiertos + PRs cerradas + PRs mergeadas">>,
             <<get_source(base, "prs_opened"), get_source(base, "prs_closed"), merged_source>>)
        @@ E("ACUs por PR totales", RoundedRatio(pre.total_acus, prs_totales),
             <<"Total ACUs / PRs totales">>, <<TOTAL_ACUS_PATH, PRS_TOTALES_PATH>>)
        @@ E("Coste por PR totales", RoundedRatio(total_cost_calculated, prs_totales),
             <<"Coste Total / PRs totales">>,
             <<TOTAL_ACUS_PATH, price_source, PRS_TOTALES_PATH>>)
        @@ E("ACUs medio por PR mergeado", RoundedRatio(pre.total_acus, pre.prs_merged),
             <<"Total ACUs / PRs mergeadas">>, <<TOTAL_ACUS_PATH, merged_source>>)
        @@ E("Coste medio por PR mergeado", RoundedRatio(total_cost_calculated, pre.prs_merged),
             <<"Coste Total / PRs mergeadas">>,
             <<TOTAL_ACUS_PATH, price_source, merged_source>>)
        @@ E("Promedio de PRs por ACU", RoundedRatio(prs_totales, pre.total_acus),
             <<"PRs totales / Total ACUs">>, <<PRS_TOTALES_PATH, TOTAL_ACUS_PATH>>)
        @@ E("Promedio de PRs mergeados por ACU", RoundedRatio(pre.prs_merged, pre.total_acus),
             <<"PRs mergeadas / Total ACUs">>, <<merged_source, TOTAL_ACUS_PATH>>)
        @@ E("Tasa de exito de PR",
             IF prs_totales.num > 0
             THEN Round2(Times(Div(pre.prs_merged, prs_totales), Num(100))) ELSE Num(0),
             <<"(PRs mergeadas / PRs totales) * 100">>, <<merged_source, PRS_TOTALES_PATH>>)

FailedEntries_WithoutRequirement(keys, error, category) ==
    [key \in keys |->
        [value |-> Txt("N/A"), reason |-> <<"Failed to calculate: ", error>>,
         category |-> category]]

\* the except clause of the block: each of the keys in the failed variant
FailedEntries(keys, error, category) ==
    [key \in keys |->
        [value |-> Txt("N/A"), reason |-> <<"Failed to calculate: ", error>>,
         external_data_required |-> "Valid consumption_by_date", category |-> category]]

\* the entries both copies assign after the block from the values of the
\* preamble; len(consumption_by_user) raises TypeError on a value without
\* length
ComputedEntries(base, pre, acus_por_sesion) ==
    LET acus_source == get_source(base, "total_acus")
        price_source == get_source(base, "price_per_acu")
        merged_source == get_source(base, "prs_merged")
        users_source == get_source(base, "consumption_by_user")
    IN  IF ~HasLen(get_value(base, "consumption_by_user", EmptyObj))
        THEN [ok |-> FALSE, error |-> "TypeError"]
        ELSE [ok |-> TRUE, value |->
            Computable("Costo Total Mensual", pre.total_cost, <<"Total ACUs * Price per ACU">>,
                       <<acus_source, price_source>>, COST_VISIBILITY)
            @@ Computable("ACUs Totales Consumidos", pre.total_acus, <<"Direct value from API">>,
                          <<acus_source>>, COST_VISIBILITY)
            @@ Computable(acus_por_sesion, pre.acus_per_session,
                          <<"Total ACUs / Total Sessions">>,
                          <<acus_source, get_source(base, "sessions_count")>>, COST_VISIBILITY)
            @@ Computable("ACUs por Usuario", Txt("See detailed breakdown"),
                          <<"ACUs per User from consumption_by_user">>, <<users_source>>,
                          COST_VISIBILITY)
            @@ Computable("Costo por Usuario", Txt("See detailed breakdown"),
                          <<"ACUs per User * Price per ACU">>, <<users_source, price_source>>,
                          COST_VISIBILITY)
            @@ Computable("ACUs promedio por PR mergeado", pre.acus_per_pr,
                          <<"Total ACUs / Total Merged PRs">>, <<acus_source, merged_source>>,
                          "COST OPTIMIZATION")
            @@ Computable("Promedio de PRs por ACU", pre.prs_per_acu,
                          <<"Total Merged PRs / Total ACUs">>, <<merged_source, acus_source>>,
                          "COST OPTIMIZATION")
            @@ Computable("Costo por PR mergeado", pre.cost_per_pr,
                          <<"Total Cost / Total Merged PRs">>,
                          <<acus_source, price_source, merged_source>>, "COST OPTIMIZATION")
            @@ Computable("ACUs por mes", pre.total_acus,
                          <<"Total ACUs for the reporting period">>, <<acus_source>>,
                          "FORECAST")]

MonthlyKeys == {"ACUs Mes", "ACUs Mes Anterior", "Coste Mes", "Coste Mes Anterior"}

\* metrics_service, lines 208-676: the block guarded by "if
\* consumption_by_date" with its except clause.  The reference date is
\* datetime.now(); an exception leaves the entries assigned before it and
\* the except clause overwrites the four monthly ones.
TrendBlock(base, pre, now) ==
    LET m == MonthlyFigures(base, pre, now, TRUE)
        user_count == get_value(base, "user_count", JNum(0))
        failed(error) == FailedEntries(MonthlyKeys, error, COST_VISIBILITY)
    IN  IF ~Truthy(get_value(base, "consumption_by_date", EmptyObj)) THEN <<>>
        ELSE IF ~m.ok THEN failed(m.error)
        ELSE IF ~IsNumber(user_count) THEN failed("TypeError") @@ TrendEntries(base, pre, m)
        ELSE IF \E key \in {"prs_opened", "prs_closed"} :
                    ~IsNumber(get_value(base, key, JNum(0)))
             THEN failed("TypeError") @@ TrendEntries(base, pre, m)
                  @@ AverageEntries(base, pre, m)
        ELSE TrendEntries(base, pre, m) @@ AverageEntries(base, pre, m) @@ PrEntries(base, pre)

\* metrics_service.calculate_finops_metrics(base_data, end_date): the catalog,
\* or the TypeError of the preamble or of len(); end_date is not read
calculate_finops_metrics(base, end, now) ==
    LET pre == Preamble(base) IN
    IF ~pre.ok THEN [ok |-> FALSE, error |-> pre.error]
    ELSE LET computed == ComputedEntries(base, pre, "ACUs por Sesion") IN
         IF ~computed.ok THEN computed
         ELSE [ok |-> TRUE, value |-> computed.value @@ TrendBlock(base, pre, now)]

\* generate_report, lines 334-774: the metrics no endpoint provides, each
\* assigned as a literal (accented letters are written without the accent)
StructurallyUnavailable ==
    NotComputable("Total Previous Month Cost",
           <<"Requires consumption data from the previous reporting period.">>,
           "consumption_daily from the previous period.", COST_VISIBILITY)
    @@ NotComputable("ACUs total mes anterior",
           <<"Requires consumption data from the previous reporting period.">>,
           "consumption_daily from the previous period.", COST_VISIBILITY)
    @@ NotComputable("Cost by Repository/PR",
           <<"Requires mapping of ACU consumption to specific repositories or PRs.">>,
           "Mapping ACUs to Repo/PR ID.", COST_VISIBILITY)
    @@ NotComputable("Cost by Task Type",
           <<"Requires task type classification for each session.">>,
           "Etiqueta task_type per session.", COST_VISIBILITY)
    @@ NotComputable("Cost by Organization",
           <<"Requires full organizational breakdown from API.">>,
           "Full breakdown consumption_by_org_id from API.", COST_VISIBILITY)
    @@ NotComputable("Cost per Group (IdP)",
           <<"Requires mapping of users to identity provider groups.">>,
           "Mapping User ID to Group ID (from /groups).", COST_VISIBILITY)
    @@ NotComputable("Coste por unidad de negocio / tribu / area",
           <<"Requires mapping of organizations to business units.">>,
           "Mapping Org ID to Business Unit.", COST_VISIBILITY)
    @@ NotComputable("Coste por proyecto / producto",
           <<"Requires project/product tagging in consumption data.">>,
           "Etiqueta project_id in consumption data.", COST_VISIBILITY)
    @@ NotComputable("% coste compartido (shared)",
           <<"Requires shared resource allocation indicators.">>,
           "shared_acus indicator or consumption_type field.", COST_VISIBILITY)
    @@ NotComputable("% de consumo trazable (cost allocation)",
           <<"Requires baseline of unaccounted costs.">>,
           "Baseline of unaccounted Total Cost.", COST_VISIBILITY)
    @@ NotComputable("Coste por plan (Core/Teams)",
           <<"Requires subscription plan mapping for users.">>,
           "Mapping User ID to Subscription Plan.", "COST OPTIMIZATION")
    @@ NotComputable("ACUs por linea de codigo",
           <<"Requires code change metrics (LOC) from sessions.">>,
           "Lines of Code (LOC) generated/modified.", "COST OPTIMIZATION")
    @@ NotComputable("ACUs por outcome (tarea completada)",
           <<"Requires outcome status tagging for sessions.">>,
           "Etiqueta outcome_status per session.", "COST OPTIMIZATION")
    @@ NotComputable("ROI por sesion",
           <<"Requires monetary value estimation for session outcomes.">>,
           "Monetary Value of the session's outcome.", "COST OPTIMIZATION")
    @@ NotComputable("% sesiones con outcome",
           <<"Requires outcome status tracking for sessions.">>,
           "Outcome status (success/failure) per session.", "COST OPTIMIZATION")
    @@ NotComputable("% sesiones sin outcome",
           <<"Requires outcome status tracking for sessions.">>,
           "Outcome status (success/failure) per session.", "COST OPTIMIZATION")
    @@ NotComputable("ACUs por hora productiva",
           <<"Requires session duration tracking in hours.">>,
           "Session Duration (in minutes/hours).", "COST OPTIMIZATION")
    @@ NotComputable("% sesiones reintentadas",
           <<"Requires session retry count tracking.">>,
           "session_retry_count metric.", "COST OPTIMIZATION")
    @@ NotComputable("Tasa de exito de PR",
           <<"Requires tracking of PRs opened vs PRs merged.">>,
           "prs_opened metric.", "COST OPTIMIZATION")
    @@ NotComputable("ACUs desperdiciados (sin ROI)",
           <<"Requires waste indicator for failed sessions.">>,
           "Waste indicator (e.g., ACUs from failed sessions).", "COST OPTIMIZATION")
    @@ NotComputable("Sesiones idle (>X min)",
           <<"Requires session duration and idle time threshold.">>,
           "Session Duration and idle time threshold.", "COST OPTIMIZATION")
    @@ NotComputable("% tareas redundantes / duplicadas",
           <<"Requires task fingerprinting or deduplication logic.">>,
           "Task fingerprint or task description hash.", "COST OPTIMIZATION")
    @@ NotComputable("Ahorro FinOps (%)",
           <<"Requires manual cost baseline or comparative vendor cost.">>,
           "Manual Cost Baseline or comparative vendor cost.", "COST OPTIMIZATION")
    @@ NotComputable("Ahorro FinOps acumulado",
           <<"Requires historical savings data and baseline costs.">>,
           "Manual Cost Baseline or comparative vendor cost.", "COST OPTIMIZATION")
    @@ NotComputable("ACU Efficiency Index (AEI)",
           <<"Requires compounding data from other inviable metrics.">>,
           "Requires compounding data from other inviable metrics.", "COST OPTIMIZATION")
    @@ NotComputable("Cost Velocity Ratio (CVR)",
           <<"Requires compounding data from other inviable metrics.">>,
           "Requires compounding data from other inviable metrics.", "COST OPTIMIZATION")
    @@ NotComputable("Waste-to-Outcome Ratio (WOR)",
           <<"Requires compounding data from other inviable metrics.">>,
           "Requires compounding data from other inviable metrics.", "COST OPTIMIZATION")
    @@ NotComputable("Lead time con Devin vs humano",
           <<"Requires human baseline time comparison data.">>,
           "Session Duration vs Human Baseline Time.", "FINOPS ENABLEMENT")
    @@ NotComputable("Prompts ineficientes (alto ACU / bajo output)",
           <<"Requires prompt quality and output metrics.">>,
           "Requires Prompt quality/output metrics.", "FINOPS ENABLEMENT")
    @@ NotComputable("Prompts eficientes (%)",
           <<"Requires prompt quality and output metrics.">>,
           "Requires Prompt quality/output metrics.", "FINOPS ENABLEMENT")
    @@ NotComputable("Prompt Efficiency Index (PEI)",
           <<"Requires prompt quality and output metrics.">>,
           "Requires Prompt quality/output metrics.", "FINOPS ENABLEMENT")
    @@ NotComputable("Team Efficiency Spread",
           <<"Requires user profile and training data.">>,
           "Requires User profile data (training_status).", "FINOPS ENABLEMENT")
    @@ NotComputable("% de usuarios formados en eficiencia de prompts",
           <<"Requires user profile and training data.">>,
           "Requires User profile data (training_status).", "FINOPS ENABLEMENT")
    @@ NotComputable("ACUs por tipo de usuario",
           <<"Requires user role/level classification.">>,
           "Mapping User ID to User Role/Level.", "CLOUD GOVERNANCE")
    @@ NotComputable("Dias restantes hasta presupuesto agotado",
           <<"Requires total budget and consumption forecast.">>,
           "Total Budget and Consumption Forecast.", "CLOUD GOVERNANCE")
    @@ NotComputable("% proyectos con limites activos",
           <<"Requires project-level budget limit configuration.">>,
           "Total Budget and Consumption Forecast.", "CLOUD GOVERNANCE")
    @@ NotComputable("% de proyectos con presupuesto definido",
           <<"Requires project-level budget configuration.">>,
           "Total Budget and Consumption Forecast.", "CLOUD GOVERNANCE")
    @@ NotComputable("Over-scope sessions (>N ACUs)",
           <<"Requires maximum ACU threshold configuration per session.">>,
           "Maximum ACU Threshold per session.", "CLOUD GOVERNANCE")
    @@ NotComputable("% ACUs usados fuera de horario laboral",
           <<"Requires consumption timestamp and working hour definition.">>,
           "Consumption timestamp + Working Hour Definition.", "CLOUD GOVERNANCE")
    @@ NotComputable("Coste por entorno (Dev/Test/Prod)",
           <<"Requires environment tagging for sessions.">>,
           "Etiqueta environment per session.", "CLOUD GOVERNANCE")
    @@ NotComputable("% de proyectos con alertas activas",
           <<"Requires alert system configuration data.">>,
           "Alert system logs/response time.", "CLOUD GOVERNANCE")
    @@ NotComputable("Tiempo medio de reaccion a alerta 90%",
           <<"Requires alert system logs and response time tracking.">>,
           "Alert system logs/response time.", "CLOUD GOVERNANCE")
    @@ NotComputable("Coste incremental PAYG",
           <<"Requires complex historical data and forecasting models.">>,
           "Requires complex historical data and forecasting models.", "FORECAST")
    @@ NotComputable("ACUs por release",
           <<"Requires release tagging and tracking.">>,
           "Requires complex historical data and forecasting models.", "FORECAST")
    @@ NotComputable("Peak ACU rate",
           <<"Requires time-series ACU consumption data.">>,
           "Requires complex historical data and forecasting models.", "FORECAST")
    @@ NotComputable("Costo por entrega (delivery)",
           <<"Requires delivery/release tracking.">>,
           "Requires complex historical data and forecasting models.", "FORECAST")
    @@ NotComputable("Uso presupuestario (%)",
           <<"Requires total budget configuration.">>,
           "Requires complex historical data and forecasting models.", "FORECAST")
    @@ NotComputable("Cumplimiento presupuestario",
           <<"Requires total budget configuration and tracking.">>,
           "Requires complex historical data and forecasting models.", "FORECAST")
    @@ NotComputable("% de proyectos sobre presupuesto",
           <<"Requires project-level budget tracking.">>,
           "Requires complex historical data and forecasting models.", "FORECAST")
    @@ NotComputable("Desviacion forecast vs real",
           <<"Requires historical forecast data.">>,
           "Requires complex historical data and forecasting models.", "FORECAST")
    @@ NotComputable("Tendencia semanal de ACUs",
           <<"Requires time-series weekly ACU data.">>,
           "Requires complex historical data and forecasting models.", "FORECAST")
    @@ NotComputable("Estacionalidad de consumo",
           <<"Requires long-term historical consumption patterns.">>,
           "Requires complex historical data and forecasting models.", "FORECAST")
    @@ NotComputable("Proyeccion de gasto mensual",
           <<"Requires forecasting model and historical data.">>,
           "Requires complex historical data and forecasting models.", "FORECAST")
    @@ NotComputable("Elasticidad del coste",
           <<"Requires cost sensitivity analysis.">>,
           "Requires complex historical data and forecasting models.", "FORECAST")
    @@ NotComputable("Costo incremental por usuario nuevo",
           <<"Requires user onboarding cost tracking.">>,
           "Requires complex historical data and forecasting models.", "FORECAST")
    @@ NotComputable("Coste por cliente (externo)",
           <<"Requires external client mapping.">>,
           "Requires complex historical data and forecasting models.", "FORECAST")
    @@ NotComputable("Coste recuperable",
           <<"Requires cost recovery tracking and billing data.">>,
           "Requires complex historical data and forecasting models.", "FORECAST")

TrendKeys ==
    {"Coste Total Mensual (Mes Actual)", "Coste Total Mes Anterior",
     "Diferencia Absoluta (Mes actual vs mes anterior)", "% Mes actual vs mes anterior"}

\* generate_report, lines 184-283: the block with its except clause.  The
\* reference date is end_date when it is given and the clock otherwise; the
\* four entries are assigned after everything that can raise.
ReportTrendBlock(base, pre, end, now) ==
    LET reference_dt == IF end # None /\ end.s # <<>> THEN strptime_Ymd(end.s)
                        ELSE [ok |-> TRUE, value |-> now]
        m == MonthlyFigures(base, pre, reference_dt.value, FALSE)
        monthly == <<"Python Function (calculate_monthly_acus_from_daily)">>
        E(key, value, formula, sources) ==
            Computable(key, value, formula, sources, "MONTHLY TREND")
    IN  IF ~Truthy(get_value(base, "consumption_by_date", EmptyObj)) THEN <<>>
        ELSE IF ~reference_dt.ok THEN FailedEntries(TrendKeys, "ValueError", "MONTHLY TREND")
        ELSE IF ~m.ok THEN FailedEntries(TrendKeys, m.error, "MONTHLY TREND")
        ELSE E("Coste Total Mensual (Mes Actual)", Round2(m.current_month_cost),
               <<"ACUs ">> \o m.current_month_prefix \o <<" * Price per ACU">>,
               monthly \o <<get_source(base, "price_per_acu")>>)
             @@ E("Coste Total Mes Anterior", Round2(m.prev_month_cost),
                  <<"ACUs ">> \o m.previous_month_prefix \o <<" * Price per ACU">>,
                  monthly \o <<get_source(base, "price_per_acu")>>)
             @@ E("Diferencia Absoluta (Mes actual vs mes anterior)",
                  Round2(m.absolute_difference),
                  <<"Current Month Cost - Previous Month Cost">>, monthly)
             @@ E("% Mes actual vs mes anterior", m.percentage_value, m.percentage_formula,
                  monthly)

\* generate_report.calculate_finops_metrics(base_data, end_date)
report_calculate_finops_metrics(base, end, now) ==
    LET pre == Preamble(base) IN
    IF ~pre.ok THEN [ok |-> FALSE, error |-> pre.error]
    ELSE LET computed == ComputedEntries(base, pre, "ACUs por Sesion") IN
         IF ~computed.ok THEN computed
         ELSE [ok |-> TRUE,
               value |-> StructurallyUnavailable @@ computed.value
                         @@ ReportTrendBlock(base, pre, end, now)]

(***************************************************************************)
(* The runs of calculate_finops_metrics.  A run reads the facts that       *)
(* calculate_base_metrics of the same copy left, the end_date of the       *)
(* command line and the system clock, and its outcome is appended to       *)
(* finops_runs.                                                            *)
(***************************************************************************)
MaxRuns == 2

\* what datetime.now() can read at a run
NowSamples == {[year |-> 2024, month |-> 10], [year |-> 2024, month |-> 11]}

\* --end: absent, two dates, and a text strptime rejects
EndDateSamples ==
    {None, StrV(IsoDate(2024, 10, 15)), StrV(IsoDate(2025, 1, 15)), StrV(IsoDate(2024, 2, 30))}

DatedAcus ==
    (IsoDate(2024, 9, 1) :> JNum(3)) @@ (IsoDate(2024, 9, 15) :> JNum(2))
    @@ (IsoDate(2024, 10, 1) :> JNum(4)) @@ (IsoDate(2024, 12, 31) :> JNum(1))
    @@ (IsoDate(2025, 1, 2) :> JNum(6))

\* consumption_by_date as the endpoint can deliver it: dated numbers, a
\* month with a null, one month only, a key that is no date, nothing, a list
ByDateSamples ==
    {JObj(DatedAcus),
     JObj((IsoDate(2024, 9, 1) :> JNull) @@ (IsoDate(2024, 10, 1) :> JNum(4))),
     JObj(IsoDate(2024, 10, 1) :> JNum(4)),
     JObj((IsoDate(2024, 10, 1) :> JNum(4)) @@ ((<<"W", "-">> \o IsoDate(2024, 10, 7)) :> JNum(9))),
     EmptyObj,
     JList(<<JNum(1)>>)}

FinopsConsumption(total_acus, by_date, by_user) ==
    "consumption_daily" :>
        FetchResult(IntV(200),
            JObj(("total_acus" :> total_acus) @@ ("consumption_by_date" :> by_date)
                 @@ ("consumption_by_user" :> by_user) @@ ("consumption_by_org_id" :> ByOrg)))

FinopsPrs(prs_opened, prs_merged) ==
    "metrics_prs" :>
        FetchResult(IntV(200),
            JObj(("prs_opened" :> prs_opened) @@ ("prs_closed" :> JNum(1))
                 @@ ("prs_merged" :> prs_merged)))

FinopsSessions(sessions_count) ==
    "metrics_sessions" :> FetchResult(IntV(200), JObj("sessions_count" :> sessions_count))

FinopsMembers(total) == "members" :> FetchResult(IntV(200), JObj("total" :> total))

\* all_api_data of the runs: the answers of a complete fetch with one of
\* them varied at a time, and the fetches with nothing and with zeros
FinopsApiSamples ==
    LET consumption == FinopsConsumption(JNum(16), JObj(DatedAcus), ByUser)
        prs == FinopsPrs(JNum(4), JNum(3))
        sessions_answer == FinopsSessions(JNum(6))
        members == FinopsMembers(JNum(2))
    IN  {FinopsConsumption(JNum(16), by_date, ByUser) @@ prs @@ sessions_answer @@ members :
             by_date \in ByDateSamples}
        \cup {c @@ prs @@ sessions_answer @@ members :
                 c \in {<<>>, FinopsConsumption(JNull, JObj(DatedAcus), ByUser),
                        FinopsConsumption(JNum(16), JObj(DatedAcus), JNull),
                        FinopsConsumption(JNum(0), JObj(DatedAcus), ByUser)}}
        \cup {consumption @@ p @@ sessions_answer @@ members :
                 p \in {<<>>, FinopsPrs(JNum(0), JNum(0)), FinopsPrs(JNull, JNum(3)),
                        FinopsPrs(JNum(4), JNull)}}
        \cup {consumption @@ prs @@ ss @@ members :
                 ss \in {<<>>, FinopsSessions(JNum(0))}}
        \cup {consumption @@ prs @@ sessions_answer @@ m :
                 m \in {<<>>, FinopsMembers(JNum(0)), FinopsMembers(PlainText("2"))}}
        \cup {<<>>,
              FinopsConsumption(JNum(0), EmptyObj, EmptyObj) @@ FinopsPrs(JNum(0), JNum(0))
              @@ FinopsSessions(JNum(0)) @@ FinopsMembers(JNum(0)),
              FinopsConsumption(JNum(0), JObj(IsoDate(2024, 10, 1) :> JNum(4)), ByUser)
              @@ FinopsPrs(JNum(0), JNum(0)) @@ FinopsSessions(JNum(0)) @@ members}

Run(copy, now, result) == [copy |-> copy, now |-> now, result |-> result]

\* metrics_service: calculate_finops_metrics(base_data, end_date) after
\* calculate_base_metrics
CalculateFinopsMetrics ==
    /\ base_pc = "done"
    /\ Len(finops_runs) < MaxRuns
    /\ \E now \in NowSamples :
          finops_runs' = Append(finops_runs,
              Run("metrics_service", now, calculate_finops_metrics(base_data, end_date, now)))
    /\ UNCHANGED <<end_date, baseVars>>
    /\ UNCHANGED otherThanFinops

\* generate_report: calculate_finops_metrics(base_data, end_date=args.end)
ReportCalculateFinopsMetrics ==
    /\ report_base_pc = "done"
    /\ Len(finops_runs) < MaxRuns
    /\ \E now \in NowSamples :
          finops_runs' = Append(finops_runs,
              Run("generate_report", now,
                  report_calculate_finops_metrics(report_base_data, end_date, now)))
    /\ UNCHANGED <<end_date, baseVars>>
    /\ UNCHANGED otherThanFinops

FinopsIdle == end_date = None /\ finops_runs = <<>>

FinopsInit ==
    /\ all_api_data \in FinopsApiSamples
    /\ base_pc = "start"
    /\ base_data = <<>>
    /\ report_base_pc = "start"
    /\ report_base_data = <<>>
    /\ end_date \in EndDateSamples
    /\ finops_runs = <<>>

NextFinops ==
    \/ CalculateBaseMetrics
    \/ ReportCalculateBaseMetrics
    \/ CalculateFinopsMetrics
    \/ ReportCalculateFinopsMetrics

(***************************************************************************)
(* error_handling.handle_pipeline_phase.  An exception is a record of its  *)
(* class, its message (str(exc)), the phase and details of a               *)
(* PipelinePhaseError, the exception it was raised from and the level that *)
(* created it: 0 is the decorated function, k the k-th wrapper from        *)
(* inside.  functools.wraps gives every wrapper the __name__ of the        *)
(* function, so func_name is the same at every level.                      *)
(***************************************************************************)
MaxDepth == 3

PipelinePhaseClasses ==
    {"PipelinePhaseError", "DataTransformationError", "MetricsCalculationError",
     "ExportError", "DataValidationError"}

\* the phase the constructor of the class passes to PipelinePhaseError
PhaseOfClass(cls) ==
    CASE cls = "DataTransformationError" -> "TRANSFORM"
      [] cls = "MetricsCalculationError" -> "CALCULATE"
      [] cls = "ExportError" -> "EXPORT"
      [] cls = "DataValidationError" -> "VALIDATION"
      [] OTHER -> ""

\* classes that derive from BaseException without deriving from Exception
BaseOnlyClasses == {"KeyboardInterrupt", "SystemExit"}

PhaseReturned(value) == [kind |-> "return", value |-> value]

Exc(cls, message, details, created_by, cause) ==
    [kind |-> "raise", cls |-> cls, message |-> message, phase |-> PhaseOfClass(cls),
     details |-> details, created_by |-> created_by, cause |-> cause]

IsPipelinePhaseError(outcome) == outcome.kind = "raise" /\ outcome.cls \in PipelinePhaseClasses

IsException(outcome) == outcome.kind = "raise" /\ outcome.cls \notin BaseOnlyClasses

FUNC_NAME == "export_daily_acus_to_csv"

wrapper_Rewrapping(phase_name, error_cls, level, outcome) ==
    IF ~IsException(outcome) THEN outcome
    ELSE Exc(error_cls, <<phase_name, " failed in ", FUNC_NAME, ": ">> \o outcome.message,
             [function |-> FUNC_NAME, original_error |-> outcome.message], level, outcome)

\* lines 235-268: what leaves the wrapper of the given level when the outcome
\* reaches it.  A result is returned, a PipelinePhaseError is re-raised, any
\* other Exception is replaced by error_cls(...) raised from it, and an
\* exception that is no Exception meets no except clause.
wrapper(phase_name, error_cls, level, outcome) ==
    IF ~IsException(outcome) \/ IsPipelinePhaseError(outcome) THEN outcome
    ELSE Exc(error_cls, <<phase_name, " failed in ", FUNC_NAME, ": ">> \o outcome.message,
             [function |-> FUNC_NAME, original_error |-> outcome.message], level, outcome)

\* what the decorated function can do
FunctionOutcomes ==
    {PhaseReturned("written")}
    \cup {Exc(cls, <<"no data">>, <<>>, 0, None) :
             cls \in {"DataValidationError", "ExportError", "PipelinePhaseError"}}
    \cup {Exc(cls, <<"boom">>, <<>>, 0, None) :
             cls \in {"ValueError", "OSError", "KeyboardInterrupt"}}

\* @handle_pipeline_phase(phase_name=..., error_cls=...)
Decorators ==
    {[phase_name |-> "EXPORT_CSV", error_cls |-> "ExportError"],
     [phase_name |-> "CALCULATE", error_cls |-> "MetricsCalculationError"],
     [phase_name |-> "PHASE", error_cls |-> "PipelinePhaseError"]}

RECURSIVE StacksUpTo(_)
StacksUpTo(n) ==
    IF n = 0 THEN {<<>>}
    ELSE StacksUpTo(n - 1)
         \cup {Append(stack, d) : stack \in {st \in StacksUpTo(n - 1) : Len(st) = n - 1},
                                  d \in Decorators}

\* the decorated function runs
PhaseCall ==
    /\ phase_pc = "start"
    /\ \E outcome \in FunctionOutcomes :
          /\ function_outcome' = outcome
          /\ phase_outcome' = outcome
    /\ phase_level' = 0
    /\ phase_pc' = IF wrappers = <<>> THEN "left" ELSE "unwinding"
    /\ UNCHANGED wrappers
    /\ UNCHANGED otherThanPipeline

\* the outcome leaves the next wrapper
WrapperExit ==
    /\ phase_pc = "unwinding"
    /\ phase_level' = phase_level + 1
    /\ phase_outcome' = wrapper(wrappers[phase_level + 1].phase_name,
                                wrappers[phase_level + 1].error_cls,
                                phase_level + 1, phase_outcome)
    /\ phase_pc' = IF phase_level + 1 = Len(wrappers) THEN "left" ELSE "unwinding"
    /\ UNCHANGED <<wrappers, function_outcome>>
    /\ UNCHANGED otherThanPipeline

PipelineIdle ==
    /\ wrappers = <<>>
    /\ phase_pc = "idle"
    /\ phase_level = 0
    /\ phase_outcome = None
    /\ function_outcome = None

PipelineInit ==
    /\ wrappers \in StacksUpTo(MaxDepth)
    /\ phase_pc = "start"
    /\ phase_level = 0
    /\ phase_outcome = None
    /\ function_outcome = None

NextPipeline == PhaseCall \/ WrapperExit

(***************************************************************************)
(* github_adapter: parse_pr_url, _forbidden_repos and fetch_all_pr_data.   *)
(* A URL is the sequence of its parts, "/" being a part of its own and     *)
(* "api." the prefix of the API host; a repo_key is the pair of owner and  *)
(* repo.  A fetch_* function that is called goes to the network at least   *)
(* once, and nothing else of fetch_all_pr_data does.                       *)
(***************************************************************************)
MaxCalls == 2

WebUrl(owner, repo, number) ==
    <<"https://", "github.com", "/", owner, "/", repo, "/", "pull", "/", number>>

ApiUrl(owner, repo, number) ==
    <<"https://", "api.", "github.com", "/", "repos", "/", owner, "/", repo, "/", "pulls",
      "/", number>>

\* the patterns of parse_pr_url: "*" is ([^/]+) and "#" is (\d+)
PrPatterns ==
    <<<<"github.com", "/", "*", "/", "*", "/", "pull", "/", "#">>,
      <<"api.", "github.com", "/", "repos", "/", "*", "/", "*", "/", "pulls", "/", "#">>>>

MatchesAt(url, at, pattern) ==
    /\ at + Len(pattern) - 1 <= Len(url)
    /\ \A k \in 1..Len(pattern) :
          LET part == url[at + k - 1] IN
          CASE pattern[k] = "*" -> part \notin {"/", "https://"}
            [] pattern[k] = "#" -> part \in {Digits[d] : d \in 1..10}
            [] OTHER -> part = pattern[k]

\* re.search(pattern, pr_url): the groups of the leftmost match, or None
Search(url, pattern) ==
    LET places == {at \in 1..Len(url) : MatchesAt(url, at, pattern)} IN
    IF places = {} THEN None
    ELSE LET at == CHOOSE first \in places : \A other \in places : first <= other
             groups == {k \in 1..Len(pattern) : pattern[k] \in {"*", "#"}}
             nth(n) == CHOOSE k \in groups : Cardinality({g \in groups : g < k}) = n - 1
         IN  [owner |-> url[at + nth(1) - 1], repo |-> url[at + nth(2) - 1],
              pull_number |-> url[at + nth(3) - 1]]

parse_pr_url(pr_url) ==
    IF Search(pr_url, PrPatterns[1]) # None THEN Search(pr_url, PrPatterns[1])
    ELSE Search(pr_url, PrPatterns[2])

RepoKey(parsed) == <<parsed.owner, parsed.repo>>

\* the lists fetch_all_pr_data is called with
PrUrlLists ==
    {<<>>,
     <<WebUrl("acme", "api", "1"), WebUrl("acme", "api", "2")>>,
     <<WebUrl("acme", "api", "1"), WebUrl("acme", "web", "1")>>,
     <<ApiUrl("acme", "api", "3"), WebUrl("acme", "api", "1")>>,
     <<WebUrl("acme", "web", "1"), WebUrl("acme", "web", "1")>>,
     <<<<"https://", "example.com", "/", "x">>, WebUrl("acme", "api", "2")>>}

\* what fetch_pr_details can do: the details with or without head.sha, or,
\* through handle_api_errors, AuthenticationError or another exception
DetailsOutcomes ==
    {[ok |-> TRUE, head_sha |-> "abc"], [ok |-> TRUE, head_sha |-> ""],
     [ok |-> FALSE, exc |-> "AuthenticationError"], [ok |-> FALSE, exc |-> "ServerError"]}

\* the fetches after the details that raise in an iteration
FailingSamples == {{}, {"reviews"}, {"reviews", "commits", "files", "check_runs"}}

IsForbidden_Never(repo_key) == FALSE

\* if repo_key in _forbidden_repos
IsForbidden(repo_key) == repo_key \in forbidden_repos

Request(pr_url, what) == [url |-> pr_url, what |-> what]

DetailsFailedRequests_Again(pr_url) ==
    <<Request(pr_url, "details"), Request(pr_url, "details")>>

\* lines 275-286: what went to the network when fetch_pr_details raised; the
\* except clauses call nothing and continue
DetailsFailedRequests(pr_url) == <<Request(pr_url, "details")>>

\* pr_data when the details could not be fetched
BarePrData(pr_url, parsed) ==
    [url |-> pr_url, owner |-> parsed.owner, repo |-> parsed.repo,
     pull_number |-> parsed.pull_number, details |-> "{}"]

\* pr_data at the end of an iteration that got the details: a fetch that
\* raises leaves [], and without head.sha check_runs is [] unasked
FullPrData(pr_url, parsed, details, failing) ==
    LET got(what) == IF what \in failing THEN "[]" ELSE what IN
    [url |-> pr_url, owner |-> parsed.owner, repo |-> parsed.repo,
     pull_number |-> parsed.pull_number, details |-> details.head_sha,
     reviews |-> got("reviews"), commits |-> got("commits"), files |-> got("files"),
     check_runs |-> IF details.head_sha = "" THEN "[]" ELSE got("check_runs")]

\* fetch_all_pr_data(pr_urls), lines 245-255: without a token it returns {}
FetchAllPrDataBegin ==
    /\ pr_pc \in {"ready", "returned"}
    /\ pr_calls < MaxCalls
    /\ pr_calls' = pr_calls + 1
    /\ pr_urls' \in PrUrlLists
    /\ github_token' \in BOOLEAN
    /\ pr_pc' = IF github_token' THEN "loop" ELSE "returned"
    /\ pr_index' = 0
    /\ pr_results' = <<>>
    /\ pr_requests' = <<>>
    /\ pr_step' = "begin"
    /\ UNCHANGED forbidden_repos
    /\ UNCHANGED otherThanGithub

\* lines 256-316: one iteration of the loop over pr_urls
FetchPrData ==
    /\ pr_pc = "loop"
    /\ pr_index < Len(pr_urls)
    /\ pr_index' = pr_index + 1
    /\ LET pr_url == pr_urls[pr_index + 1]
           parsed == parse_pr_url(pr_url)
       IN  IF parsed = None
           THEN /\ pr_step' = "unparsed"
                /\ UNCHANGED <<forbidden_repos, pr_results, pr_requests>>
           ELSE IF IsForbidden(RepoKey(parsed))
           THEN /\ pr_step' = "skipped"
                /\ UNCHANGED <<forbidden_repos, pr_results, pr_requests>>
           ELSE \E details \in DetailsOutcomes, failing \in FailingSamples :
                  IF ~details.ok
                  THEN /\ failing = {}
                       /\ pr_step' = details.exc
                       /\ forbidden_repos' =
                              IF details.exc = "AuthenticationError"
                              THEN forbidden_repos \cup {RepoKey(parsed)}
                              ELSE forbidden_repos
                       /\ pr_results' = (pr_url :> BarePrData(pr_url, parsed)) @@ pr_results
                       /\ pr_requests' = pr_requests \o DetailsFailedRequests(pr_url)
                  ELSE /\ pr_step' = "fetched"
                       /\ pr_results' =
                              (pr_url :> FullPrData(pr_url, parsed, details, failing))
                              @@ pr_results
                       /\ pr_requests' =
                              pr_requests
                              \o <<Request(pr_url, "details"), Request(pr_url, "reviews"),
                                   Request(pr_url, "commits"), Request(pr_url, "files")>>
                              \o (IF details.head_sha = "" THEN <<>>
                                  ELSE <<Request(pr_url, "check_runs")>>)
                       /\ UNCHANGED forbidden_repos
    /\ UNCHANGED <<github_token, pr_urls, pr_pc, pr_calls>>
    /\ UNCHANGED otherThanGithub

\* lines 318-319
FetchAllPrDataReturn ==
    /\ pr_pc = "loop"
    /\ pr_index = Len(pr_urls)
    /\ pr_pc' = "returned"
    /\ pr_step' = "return"
    /\ UNCHANGED <<forbidden_repos, github_token, pr_urls, pr_index, pr_results,
                   pr_requests, pr_calls>>
    /\ UNCHANGED otherThanGithub

GithubIdle ==
    /\ forbidden_repos = {}
    /\ github_token = FALSE
    /\ pr_urls = <<>>
    /\ pr_pc = "idle"
    /\ pr_index = 0
    /\ pr_results = <<>>
    /\ pr_requests = <<>>
    /\ pr_calls = 0
    /\ pr_step = "idle"

\* the module has just been imported: _forbidden_repos is empty
GithubInit ==
    /\ forbidden_repos = {}
    /\ github_token = FALSE
    /\ pr_urls = <<>>
    /\ pr_pc = "ready"
    /\ pr_index = 0
    /\ pr_results = <<>>
    /\ pr_requests = <<>>
    /\ pr_calls = 0
    /\ pr_step = "idle"

NextGithub == FetchAllPrDataBegin \/ FetchPrData \/ FetchAllPrDataReturn

(***************************************************************************)
(* github_adapter._github_get under                                        *)
(* @handle_api_errors(max_retries=3, base_delay=1.0).  An invocation makes *)
(* one or two requests.get calls; the text of a response is the sequence   *)
(* of its words.                                                           *)
(***************************************************************************)
\* str.lower() of the words the sample bodies are made of
Lower(word) ==
    CASE word = "Rate" -> "rate"
      [] word = "RATE" -> "rate"
      [] word = "Limit" -> "limit"
      [] word = "API" -> "api"
      [] word = "Forbidden" -> "forbidden"
      [] OTHER -> word

LowerText(text) == [k \in 1..Len(text) |-> Lower(text[k])]

\* "rate limit" in text
ContainsRateLimit(text) ==
    \E k \in 1..(Len(text) - 1) : text[k] = "rate" /\ text[k + 1] = "limit"

\* a response: status_code, text and the X-RateLimit-Reset header, None when
\* the response does not carry it
Response(status_code, text, reset) ==
    [status_code |-> status_code, text |-> text, reset |-> reset]

RateLimitBody == <<"API", "Rate", "Limit", "exceeded">>

ForbiddenBody == <<"Forbidden", "resource">>

\* the clock reads 1000 at the calls; the reset times lie before it, 30 and
\* 100 seconds after it, or are not a number
ClockSamples == {1000}

FirstResponses ==
    {Response(200, <<"ok">>, None),
     Response(200, RateLimitBody, StrV(<<"1030">>)),
     Response(403, RateLimitBody, None),
     Response(403, RateLimitBody, IntV(990)),
     Response(403, RateLimitBody, IntV(1030)),
     Response(403, RateLimitBody, IntV(1100)),
     Response(403, <<"RATE", "limit">>, StrV(<<"soon">>)),
     Response(403, ForbiddenBody, IntV(1030)),
     Response(403, <<"limit", "rate">>, None),
     Response(429, RateLimitBody, IntV(1030)),
     Response(429, <<"slow", "down">>, None),
     Response(401, <<"Bad", "credentials">>, None),
     Response(404, <<"Not", "Found">>, None),
     Response(500, <<"oops">>, None)}

SecondResponses ==
    {Response(200, <<"ok">>, None),
     Response(403, RateLimitBody, IntV(1030)),
     Response(429, RateLimitBody, IntV(1030)),
     Response(503, <<"oops">>, None)}

\* requests.get raises instead of answering
TransportFailures == {[raises |-> "Timeout"], [raises |-> "ConnectionError"]}

IsResponse(got) == "status_code" \in DOMAIN got

\* int(response.headers.get("X-RateLimit-Reset", 0)): the default without the
\* header, ValueError for a header that is not a number
ResetTime(response) ==
    IF response.reset = None THEN [ok |-> TRUE, value |-> 0]
    ELSE IF response.reset.t = "int" THEN [ok |-> TRUE, value |-> response.reset.n]
    ELSE [ok |-> FALSE]

IsRateLimited_429(response) == response.status_code = 429 /\ response.reset # None

\* if response.status_code == 403 and "rate limit" in response.text.lower()
IsRateLimited(response) ==
    response.status_code = 403 /\ ContainsRateLimit(LowerText(response.text))

\* wait = max(reset_time - int(time.time()), 1); time.sleep(min(wait, 60))
InlineSleep(reset_time, now) == Min(Max(reset_time - now, 1), 60)

\* response.raise_for_status(); return response
RaiseForStatus(response, gets, slept) ==
    IF response.status_code >= 400
    THEN [kind |-> "HTTPError", status_code |-> IntV(response.status_code),
          gets |-> gets, slept |-> slept]
    ELSE [kind |-> "ok", value |-> response, gets |-> gets, slept |-> slept]

TransportFailure(got, gets, slept) ==
    [kind |-> got.raises, cls |-> got.raises, gets |-> gets, slept |-> slept]

\* one invocation of _github_get: what it returns or raises, the answers of
\* its requests.get calls in order, and the arguments of its time.sleep calls
_github_get(first, second, now) ==
    IF ~IsResponse(first) THEN TransportFailure(first, <<first>>, <<>>)
    ELSE IF IsRateLimited(first)
    THEN LET reset_time == ResetTime(first) IN
         IF ~reset_time.ok
         THEN [kind |-> "Exception", cls |-> "ValueError", gets |-> <<first>>,
               slept |-> <<>>]
         ELSE LET slept == <<InlineSleep(reset_time.value, now)>> IN
              IF ~IsResponse(second) THEN TransportFailure(second, <<first, second>>, slept)
              ELSE RaiseForStatus(second, <<first, second>>, slept)
    ELSE RaiseForStatus(first, <<first>>, <<>>)

\* one iteration of the loop of handle_api_errors around _github_get
GithubGet ==
    /\ InLoop
    /\ \E first \in FirstResponses \cup TransportFailures,
          second \in SecondResponses \cup TransportFailures, now \in ClockSamples :
         LET outcome == [now |-> now] @@ _github_get(first, second, now) IN
         CASE outcome.kind = "ok" ->
                Terminate(outcome, "returned", Returned(outcome.value))
           [] outcome.kind = "HTTPError" ->
                IF IsAuthStatus(outcome.status_code)
                THEN Terminate(outcome, "raised",
                               Raised("AuthenticationError", outcome.status_code, "HTTPError"))
                ELSE IF IsRetryableStatus(outcome.status_code)
                THEN RetryOrRaise(outcome, HTTPTerminal(outcome.status_code))
                ELSE Terminate(outcome, "raised",
                               Raised("APIError", outcome.status_code, "HTTPError"))
           [] outcome.kind = "Timeout" -> RetryOrRaise(outcome, TimeoutTerminal(outcome.cls))
           [] outcome.kind = "ConnectionError" ->
                RetryOrRaise(outcome, ConnectionTerminal(outcome.cls))
           [] OTHER ->
                Terminate(outcome, "raised", Raised("APIError", StrV("ERROR"), outcome.cls))
    /\ UNCHANGED otherThanRetry

\* the decorator arguments of _github_get; max_delay has its default
GithubGetInit ==
    /\ max_retries = 3
    /\ base_delay = 1
    /\ max_delay = 30
    /\ attempt = 1
    /\ history = <<>>
    /\ sleeps = <<>>
    /\ wrapper_pc = "running"
    /\ wrapper_out = None

NextGithubGet == GithubGet

(***************************************************************************)
(* jira_adapter.fetch_jira_issue_changelog.  A changelog entry is a name;  *)
(* the answer of a page request is what _jira_get raised or the value      *)
(* resp.json() gave, which raises itself for a body that is not JSON.      *)
(***************************************************************************)
max_results == 100

\* the largest 'total' a page states
MaxTotal == 250

ValuesSamples ==
    {JList(<<>>), JList(<<"c1">>), JList(<<"c1", "c2">>), JNull}

TotalSamples == {JNum(0), JNum(2), JNum(150), JNum(MaxTotal), JNull}

ChangelogData ==
    {JObj([values |-> values, total |-> total]) :
        values \in ValuesSamples, total \in TotalSamples}
    \cup {JObj([values |-> values]) : values \in ValuesSamples}
    \cup {JObj([total |-> total]) : total \in TotalSamples}
    \cup {JList(<<>>)}

PageAnswers ==
    {[raises |-> exc] : exc \in {"AuthenticationError", "ServerError", "JSONDecodeError"}}
    \cup {[data |-> body] : body \in ChangelogData}

\* the try block of lines 110-122 on one answer: the list after it and
\* whether the loop goes on; every exception takes the break of line 125
ChangelogPage_KeepGoing(answer, at, collected) ==
    [all_changelogs |-> collected, again |-> TRUE]

ChangelogPage(answer, at, collected) ==
    LET stop(list) == [all_changelogs |-> list, again |-> FALSE] IN
    IF "raises" \in DOMAIN answer THEN stop(collected)
    ELSE IF ~IsDict(answer.data) THEN stop(collected)
    ELSE LET values == Get(answer.data, "values", JList(<<>>))
             total == Get(answer.data, "total", JNum(0))
         IN  IF ~IsList(values) THEN stop(collected)
             ELSE LET extended == collected \o values.l IN
                  IF ~IsNumber(total) THEN stop(extended)
                  ELSE IF at + Len(values.l) >= total.n THEN stop(extended)
                  ELSE [all_changelogs |-> extended, again |-> TRUE]

\* lines 95-107: without JIRA_BASE_URL the function returns []
FetchChangelogBegin ==
    /\ jira_pc = "ready"
    /\ jira_base_url' \in BOOLEAN
    /\ jira_pc' = IF jira_base_url' THEN "loop" ELSE "returned"
    /\ start_at' = 0
    /\ all_changelogs' = <<>>
    /\ jira_pages' = <<>>
    /\ jira_out' = IF jira_base_url' THEN None ELSE JList(<<>>)
    /\ UNCHANGED otherThanJira

\* lines 109-127: one iteration of "while True", with the return that
\* follows the loop when the iteration leaves it
FetchChangelogPage ==
    /\ jira_pc = "loop"
    /\ \E answer \in PageAnswers :
         LET page == ChangelogPage(answer, start_at, all_changelogs) IN
         /\ jira_pages' = Append(jira_pages, [start_at |-> start_at, answer |-> answer])
         /\ all_changelogs' = page.all_changelogs
         /\ IF page.again
            THEN /\ start_at' = start_at + max_results
                 /\ UNCHANGED <<jira_pc, jira_out>>
            ELSE /\ jira_pc' = "returned"
                 /\ jira_out' = JList(page.all_changelogs)
                 /\ UNCHANGED start_at
    /\ UNCHANGED jira_base_url
    /\ UNCHANGED otherThanJira

JiraIdle ==
    /\ jira_base_url = FALSE
    /\ jira_pc = "idle"
    /\ start_at = 0
    /\ all_changelogs = <<>>
    /\ jira_pages = <<>>
    /\ jira_out = None

JiraInit ==
    /\ jira_base_url = FALSE
    /\ jira_pc = "ready"
    /\ start_at = 0
    /\ all_changelogs = <<>>
    /\ jira_pages = <<>>
    /\ jira_out = None

NextJira == FetchChangelogBegin \/ FetchChangelogPage

(***************************************************************************)
(* Specifications.                                                         *)
(***************************************************************************)
InitRetry == RetryInit /\ AdapterIdle /\ BaseIdle /\ ConfigIdle /\ CalcIdle /\ FinopsIdle
    /\ PipelineIdle /\ GithubIdle /\ JiraIdle

SpecRetry == InitRetry /\ [][NextRetry]_vars

InitCognition ==
    /\ FinopsIdle
    /\ PipelineIdle
    /\ GithubIdle /\ JiraIdle
    /\ call = "fetch_cognition_data"
    /\ EnvInit
    /\ CognitionInit
    /\ FanoutIdle
    /\ OrgMapIdle
    /\ RetryIdle
    /\ BaseIdle
    /\ ConfigIdle
    /\ CalcIdle

SpecCognition == InitCognition /\ [][NextCognition]_vars

InitFanout ==
    /\ FinopsIdle
    /\ PipelineIdle
    /\ GithubIdle /\ JiraIdle
    /\ call = "fetch_api_data"
    /\ EnvInit
    /\ CognitionIdle
    /\ FanoutInit
    /\ OrgMapIdle
    /\ RetryIdle
    /\ BaseIdle
    /\ ConfigIdle
    /\ CalcIdle

SpecFanout == InitFanout /\ [][NextFanout]_vars

\* any one of the three functions of data_adapter is called
InitAdapter ==
    /\ FinopsIdle
    /\ PipelineIdle
    /\ GithubIdle /\ JiraIdle
    /\ EnvInit
    /\ RetryIdle
    /\ BaseIdle
    /\ ConfigIdle
    /\ CalcIdle
    /\ \/ call = "fetch_cognition_data" /\ CognitionInit /\ FanoutIdle /\ OrgMapIdle
       \/ call = "fetch_api_data" /\ CognitionIdle /\ FanoutInit /\ OrgMapIdle
       \/ /\ call = "fetch_user_organization_mappings"
          /\ CognitionIdle /\ FanoutIdle /\ OrgMapInit

NextAdapter == NextCognition \/ NextFanout \/ NextOrgMap

SpecAdapter == InitAdapter /\ [][NextAdapter]_vars

InitBase == BaseInit /\ ConfigInit /\ RetryIdle /\ AdapterIdle /\ CalcIdle /\ FinopsIdle
    /\ PipelineIdle /\ GithubIdle /\ JiraIdle

SpecBase == InitBase /\ [][NextBase]_vars

InitCalc == CalcInit /\ ConfigInit /\ RetryIdle /\ AdapterIdle /\ BaseIdle /\ FinopsIdle
    /\ PipelineIdle /\ GithubIdle /\ JiraIdle

SpecCalc == InitCalc /\ [][NextCalc]_vars

InitFinops == FinopsInit /\ ConfigInit /\ RetryIdle /\ AdapterIdle /\ CalcIdle
    /\ PipelineIdle /\ GithubIdle /\ JiraIdle

SpecFinops == InitFinops /\ [][NextFinops]_vars

IdleButApart ==
    /\ RetryIdle /\ AdapterIdle /\ BaseIdle /\ ConfigIdle /\ CalcIdle /\ FinopsIdle

InitPipeline == PipelineInit /\ GithubIdle /\ JiraIdle /\ IdleButApart

SpecPipeline == InitPipeline /\ [][NextPipeline]_vars

InitGithub == GithubInit /\ PipelineIdle /\ JiraIdle /\ IdleButApart

SpecGithub == InitGithub /\ [][NextGithub]_vars

InitGithubGet ==
    GithubGetInit /\ AdapterIdle /\ BaseIdle /\ ConfigIdle /\ CalcIdle /\ FinopsIdle
        /\ PipelineIdle /\ GithubIdle /\ JiraIdle

SpecGithubGet == InitGithubGet /\ [][NextGithubGet]_vars

InitJira == JiraInit /\ PipelineIdle /\ GithubIdle /\ IdleButApart

SpecJira == InitJira /\ [][NextJira]_vars

(***************************************************************************)
(* Properties of handle_api_errors (checked under SpecRetry).              *)
(***************************************************************************)
IsRetryableHttpOutcome(o) ==
    /\ o.kind = "HTTPError"
    /\ o.status_code \in {IntV(429), IntV(500), IntV(502), IntV(503), IntV(504)}

IsRetryableOutcome(o) ==
    IsRetryableHttpOutcome(o) \/ o.kind \in {"Timeout", "ConnectionError"}

AllOutcomes(P(_)) == \A k \in 1..Len(history) : P(history[k])

\* the delay the specification prescribes after the failure of attempt k
ScheduledDelay(k) ==
    LET d == base_delay * Pow2(k - 1) IN IF d <= max_delay THEN d ELSE max_delay

C2_NoRetryOnAuth ==
    \A k \in 1..Len(history) :
        (history[k].kind = "HTTPError"
           /\ history[k].status_code \in {IntV(401), IntV(403)}) =>
            /\ k = Len(history)
            /\ wrapper_pc = "raised"
            /\ wrapper_out.exc = "AuthenticationError"
            /\ wrapper_out.status_code = history[k].status_code
            /\ Len(sleeps) = k - 1
            /\ attempt = k

C2_Witness ==
    /\ Len(history) = 2
    /\ history[1].kind = "Timeout"
    /\ history[2].kind = "HTTPError"
    /\ history[2].status_code = IntV(403)
    /\ wrapper_pc = "raised"
    /\ wrapper_out.exc = "AuthenticationError"
    /\ Len(sleeps) = 1

\* C3: after a retryable failure at attempt k < max_retries the wrapper
\* sleeps exactly min(base_delay * 2^(k-1), max_delay) before attempt k + 1;
\* the delays of one call are non-decreasing and never exceed max_delay, and
\* no sleep follows the failure of attempt k = max_retries.
C3_BackoffSchedule ==
    /\ \A k \in 1..Len(sleeps) :
          /\ sleeps[k] = ScheduledDelay(k)
          /\ sleeps[k] <= max_delay
          /\ k < max_retries
          /\ k <= Len(history) /\ IsRetryableOutcome(history[k])
    /\ \A k \in 1..(Len(sleeps) - 1) : sleeps[k] <= sleeps[k + 1]
    /\ \A k \in 1..Len(history) :
          (IsRetryableOutcome(history[k]) /\ k < max_retries) => k <= Len(sleeps)
    /\ wrapper_pc = "running" => attempt = Len(sleeps) + 1

C3_Witness ==
    /\ max_retries = 3
    /\ base_delay = 2
    /\ max_delay = 3
    /\ Len(history) = 3
    /\ AllOutcomes(IsRetryableOutcome)
    /\ sleeps = <<2, 3>>
    /\ wrapper_pc = "raised"

\* C4: a call that raises Timeout on every attempt is invoked exactly
\* max_retries times, with the delay schedule of the retryable HTTP errors,
\* and the wrapper then raises APIError with status_code 'TIMEOUT'; a
\* persistent ConnectionError does the same with 'CONNECTION_ERROR'.
C4_Persistent(kind, tag) ==
    (Len(history) >= 1 /\ AllOutcomes(LAMBDA o : o.kind = kind)) =>
        /\ wrapper_pc = "running" => Len(history) < max_retries
        /\ wrapper_pc # "running" =>
             /\ Len(history) = max_retries
             /\ wrapper_pc = "raised"
             /\ wrapper_out.exc = "APIError"
             /\ wrapper_out.status_code = StrV(tag)
             /\ sleeps = [k \in 1..(max_retries - 1) |-> ScheduledDelay(k)]

C4_TransportTerminal ==
    /\ C4_Persistent("Timeout", "TIMEOUT")
    /\ C4_Persistent("ConnectionError", "CONNECTION_ERROR")

C4_Witness ==
    /\ max_retries = 3
    /\ Len(history) = 3
    /\ AllOutcomes(LAMBDA o : o.kind = "Timeout")
    /\ wrapper_pc = "raised"
    /\ wrapper_out.status_code = StrV("TIMEOUT")
    /\ Len(sleeps) = 2

(***************************************************************************)
(* Properties of data_adapter (checked under SpecCognition, SpecFanout     *)
(* and SpecAdapter).                                                       *)
(***************************************************************************)
\* has_more of a page body is true (and not false or absent)
PageSaysMore(body) ==
    "has_more" \in DOMAIN body.o /\ body.o["has_more"] = JBool(TRUE)

PageLen(body) == IF "data" \in DOMAIN body.o THEN Len(body.o["data"].l) ELSE 0

RECURSIVE ConcatPages(_)
ConcatPages(ps) ==
    IF ps = <<>> THEN <<>>
    ELSE ConcatPages(SubSeq(ps, 1, Len(ps) - 1))
         \o (IF "data" \in DOMAIN ps[Len(ps)].o THEN ps[Len(ps)].o["data"].l ELSE <<>>)

RECURSIVE SumPageLens(_)
SumPageLens(ps) ==
    IF ps = <<>> THEN 0 ELSE PageLen(Head(ps)) + SumPageLens(Tail(ps))

\* C5: when page n is the first page whose has_more is false or absent and
\* no request fails, fetch_cognition_data issues exactly n requests, the
\* k-th with skip = (k-1) * page_size and limit = page_size, and returns the
\* concatenation of the pages' data in page order (its length is the sum of
\* the page lengths).
C5_PaginationTermination ==
    /\ \A k \in 1..(Len(pages) - 1) : PageSaysMore(pages[k])
    /\ cg_pc \in {"loop", "returned"} =>
         /\ Len(http_log) = Len(pages)
         /\ \A k \in 1..Len(http_log) :
               /\ http_log[k].params.skip = (k - 1) * cg_args.page_size
               /\ http_log[k].params.limit = cg_args.page_size
    /\ cg_pc = "returned" =>
         /\ Len(pages) >= 1
         /\ ~PageSaysMore(pages[Len(pages)])
         /\ all_data = ConcatPages(pages)
         /\ Len(all_data) = SumPageLens(pages)

C5_Witness ==
    /\ cg_pc = "returned"
    /\ cg_args.page_size = 100
    /\ Len(pages) = 3
    /\ all_data = <<"b", "a", "a">>
    /\ http_log[3].params.skip = 200

ExpectedStatus(outcome) ==
    CASE outcome.kind = "response" -> IntV(outcome.status_code)
      [] outcome.kind = "Timeout" -> StrV("TIMEOUT")
      [] outcome.kind = "ConnectionError" -> StrV("CONNECTION_ERROR")
      [] outcome.kind = "Exception" -> StrV("ERROR")

\* C6: with the API key set, fetch_api_data never raises; the keys of its
\* result are exactly the endpoint names of the mapping, and the status_code
\* of each entry is that endpoint's own HTTP status or the tag of its own
\* failure ('TIMEOUT', 'CONNECTION_ERROR', 'ERROR'), whatever the outcomes
\* of the other endpoints.
C6_FanoutIsolation ==
    (call = "fetch_api_data" /\ env_api_key # None) =>
        /\ fa_pc # "raised"
        /\ DOMAIN results = {endpoint_list[i].name : i \in 1..Len(fa_outcomes)}
        /\ \A i \in 1..Len(fa_outcomes) :
              results[endpoint_list[i].name].status_code = ExpectedStatus(fa_outcomes[i])
        /\ fa_pc = "returned" =>
              DOMAIN results = {endpoint_list[i].name : i \in 1..Len(endpoint_list)}

C6_Witness ==
    /\ fa_pc = "returned"
    /\ Len(endpoint_list) = 2
    /\ fa_outcomes[1].kind = "Timeout"
    /\ fa_outcomes[2] = [kind |-> "response", status_code |-> 200]
    /\ results[endpoint_list[1].name].status_code = StrV("TIMEOUT")
    /\ results[endpoint_list[2].name].status_code = IntV(200)

\* the failures that the policy of handle_api_errors retries
IsRetryableFetchOutcome(outcome) ==
    \/ outcome.kind \in {"Timeout", "ConnectionError"}
    \/ outcome.kind = "response" /\ outcome.status_code \in {429, 500, 502, 503, 504}

RequestsOfEndpoint(name) ==
    Cardinality({k \in 1..Len(http_log) : http_log[k].name = StrV(name)})

RequestsAtSkip(n) ==
    Cardinality({k \in 1..Len(http_log) : http_log[k].params.skip = n})

ExpectedBase(path) ==
    IF Len(path) >= 2 /\ path[1] = "/" /\ path[2] = "audit-logs"
      THEN <<"https://api.devin.ai", "/", "v2">>
      ELSE <<"https://api.devin.ai", "/", "v2", "/", "enterprise">>

\* C8: the URL of a request is the base URL chosen by the endpoint path
\* alone, followed by the path: https://api.devin.ai/v2 for a path that
\* starts with '/audit-logs', https://api.devin.ai/v2/enterprise for every
\* other path, in fetch_api_data, in fetch_user_organization_mappings and in
\* fetch_cognition_data called with its default base_url and endpoint.
C8_BaseUrlRouting ==
    \A k \in 1..Len(http_log) :
        (http_log[k].site = "fetch_cognition_data"
            => (cg_args.base_url = <<"https://api.devin.ai", "/", "v2", "/", "enterprise">>
                /\ cg_args.endpoint = <<"/", "consumption", "/", "daily">>))
        => http_log[k].url = ExpectedBase(http_log[k].path) \o http_log[k].path

C8_Witness ==
    /\ Len(http_log) = 2
    /\ http_log[1].site = "fetch_api_data"
    /\ http_log[1].path = <<"/", "members", "/", "audit-logs">>
    /\ http_log[1].url =
         <<"https://api.devin.ai", "/", "v2", "/", "enterprise",
           "/", "members", "/", "audit-logs">>
    /\ http_log[2].path = <<"/", "audit-logs", "/", "export">>
    /\ http_log[2].url =
         <<"https://api.devin.ai", "/", "v2", "/", "audit-logs", "/", "export">>

(***************************************************************************)
(* Properties of calculate_base_metrics (checked under SpecBase).          *)
(***************************************************************************)
SourceEndpoints == {"consumption_daily", "metrics_prs", "metrics_sessions", "members"}

FactsSourcedFrom(name) ==
    CASE name = "consumption_daily" ->
           {"total_acus", "consumption_by_date", "consumption_by_user",
            "consumption_by_org_id", "unique_users", "num_organizations"}
      [] name = "metrics_prs" -> {"prs_opened", "prs_closed", "prs_merged"}
      [] name = "metrics_sessions" -> {"sessions_count"}
      [] name = "members" -> {"user_count"}

\* the endpoint did not return HTTP 200, or its body is a string that is not JSON
EndpointUnusable(name) ==
    \/ name \notin DOMAIN all_api_data
    \/ all_api_data[name].status_code # IntV(200)
    \/ /\ all_api_data[name].response.j = "str"
       /\ "json" \notin DOMAIN all_api_data[name].response

\* the endpoint returned HTTP 200 with a JSON object, decoded or as a string
EndpointObject(name) ==
    LET r == all_api_data[name].response IN
    IF r.j = "str" THEN r.json ELSE r

EndpointUsable(name) ==
    /\ name \in DOMAIN all_api_data
    /\ all_api_data[name].status_code = IntV(200)
    /\ all_api_data[name].response.j = "str" => "json" \in DOMAIN all_api_data[name].response
    /\ EndpointObject(name).j = "obj"

\* a fact read directly from a field of the endpoint's object (0 when the field is absent)
FieldFacts(name, report) ==
    CASE name = "consumption_daily" -> {<<"total_acus", "total_acus">>}
      [] name = "metrics_prs" -> {<<"prs_merged", "prs_merged">>}
      [] name = "metrics_sessions" -> {<<"sessions_count", "sessions_count">>}
      [] name = "members" -> IF report THEN {} ELSE {<<"user_count", "total">>}

BaseFactsRespectSources(result, report) ==
    /\ \A name \in SourceEndpoints :
          /\ EndpointUnusable(name) => DOMAIN result \cap FactsSourcedFrom(name) = {}
          /\ EndpointUsable(name) =>
                \A ff \in FieldFacts(name, report) :
                    /\ ff[1] \in DOMAIN result
                    /\ result[ff[1]].value =
                         (IF ff[2] \in DOMAIN EndpointObject(name).o
                            THEN EndpointObject(name).o[ff[2]] ELSE JNum(0))
    /\ "price_per_acu" \in DOMAIN result
    /\ result["price_per_acu"].value = JNum(price_per_acu)

\* C9: for each source endpoint whose status_code is not 200 or whose
\* response is a string that is not JSON, the dictionary returned by
\* calculate_base_metrics (either copy) contains none of the facts sourced
\* from that endpoint; the facts of the other endpoints and price_per_acu
\* are read from their own sources whatever the state of that endpoint.
C9_FactsOmitted ==
    /\ base_pc = "done" => BaseFactsRespectSources(base_data, FALSE)
    /\ report_base_pc = "done" => BaseFactsRespectSources(report_base_data, TRUE)

C9_Witness ==
    /\ base_pc = "done"
    /\ report_base_pc = "done"
    /\ "consumption_daily" \in DOMAIN all_api_data
    /\ all_api_data["consumption_daily"].status_code = IntV(404)
    /\ all_api_data["consumption_daily"].response.j = "obj"
    /\ "metrics_prs" \in DOMAIN all_api_data
    /\ all_api_data["metrics_prs"] = [status_code |-> IntV(200), response |-> PlainText("<html>")]
    /\ EndpointUsable("metrics_sessions")
    /\ EndpointUsable("members")
    /\ DOMAIN base_data = {"sessions_count", "user_count", "price_per_acu"}
    /\ DOMAIN report_base_data = {"sessions_count", "price_per_acu"}

(***************************************************************************)
(* Claims about MetricsCalculator.calculate_all_metrics.                   *)
(***************************************************************************)
Layer2Keys ==
    {"01_total_monthly_cost", "02_total_acus", "03_cost_per_user", "04_acus_per_session",
     "05_average_acus_per_session", "06_total_sessions", "07_sessions_per_user",
     "08_total_duration_minutes", "09_average_session_duration", "10_acus_per_minute",
     "11_cost_per_minute", "12_unique_users", "13_sessions_by_task_type",
     "14_acus_by_task_type", "15_cost_by_task_type", "16_sessions_by_department",
     "17_acus_by_department", "18_cost_by_department", "19_average_cost_per_user",
     "20_efficiency_ratio"}

\* the keys of the functions that raise on the loaded data
RaisingKeys ==
    {metric_methods[i][1] : i \in {j \in 1..Len(metric_methods) : ~Call(metric_methods[j][2]).ok}}

Layer2KeyOrder ==
    <<"01_total_monthly_cost", "02_total_acus", "03_cost_per_user", "04_acus_per_session",
      "05_average_acus_per_session", "06_total_sessions", "07_sessions_per_user",
      "08_total_duration_minutes", "09_average_session_duration", "10_acus_per_minute",
      "11_cost_per_minute", "12_unique_users", "13_sessions_by_task_type",
      "14_acus_by_task_type", "15_cost_by_task_type", "16_sessions_by_department",
      "17_acus_by_department", "18_cost_by_department", "19_average_cost_per_user",
      "20_efficiency_ratio">>

TotalAcus == SumWhere(SameKey, "all", acus_consumed)

TotalDuration == SumWhere(SameKey, "all", duration_minutes)

UniqueUsers == Cardinality({sessions[i].user_email : i \in 1..Len(sessions)})

\* what each aggregate function returns on the loaded sessions and users when
\* neither it nor anything it calls has been replaced
ValueWhenAllWork(key) ==
    CASE key = "01_total_monthly_cost" -> TimesPrice(Num(TotalAcus))
      [] key = "02_total_acus" -> Num(TotalAcus)
      [] key = "03_cost_per_user" -> CostOf(GroupBy(user_email, acus_consumed))
      [] key = "04_acus_per_session" -> calculate_acus_per_session.value
      [] key = "05_average_acus_per_session" ->
            IF sessions = <<>> THEN Num(0) ELSE Rat(TotalAcus, Len(sessions))
      [] key = "06_total_sessions" -> Num(Len(sessions))
      [] key = "07_sessions_per_user" -> GroupBy(user_email, One)
      [] key = "08_total_duration_minutes" -> Num(TotalDuration)
      [] key = "09_average_session_duration" ->
            IF sessions = <<>> THEN Num(0) ELSE Rat(TotalDuration, Len(sessions))
      [] key = "10_acus_per_minute" ->
            IF TotalDuration = 0 THEN Num(0) ELSE Rat(TotalAcus, TotalDuration)
      [] key = "11_cost_per_minute" ->
            IF TotalDuration = 0 THEN Num(0)
            ELSE Rat(TotalAcus * price_per_acu, TotalDuration * 100)
      [] key = "12_unique_users" -> Num(UniqueUsers)
      [] key = "13_sessions_by_task_type" -> GroupBy(task_type, One)
      [] key = "14_acus_by_task_type" -> GroupBy(task_type, acus_consumed)
      [] key = "15_cost_by_task_type" -> CostOf(GroupBy(task_type, acus_consumed))
      [] key = "16_sessions_by_department" -> GroupBy(department, One)
      [] key = "17_acus_by_department" -> GroupBy(department, acus_consumed)
      [] key = "18_cost_by_department" -> CostOf(GroupBy(department, acus_consumed))
      [] key = "19_average_cost_per_user" ->
            IF UniqueUsers = 0 THEN Num(0)
            ELSE Rat(TotalAcus * price_per_acu, UniqueUsers * 100)
      [] key = "20_efficiency_ratio" ->
            IF TotalDuration = 0 THEN Num(0) ELSE Rat(TotalAcus * 60, TotalDuration)

SumOfValues(d) == SumOfKeys(d, DOMAIN d)

\* C12: for every loaded session list and user list, the values of
\* cost_per_user, cost_by_task_type and cost_by_department each sum to
\* total_monthly_cost, the values of acus_by_task_type and acus_by_department
\* sum to total_acus, and the values of sessions_per_user,
\* sessions_by_task_type and sessions_by_department sum to total_sessions.
C12_GroupingsSumToTotals ==
    (calc_pc = "returned" /\ failed_metrics = <<>>) =>
        LET m == calc_out.metrics
        IN  /\ SumOfValues(m["03_cost_per_user"]) = m["01_total_monthly_cost"]
            /\ SumOfValues(m["15_cost_by_task_type"]) = m["01_total_monthly_cost"]
            /\ SumOfValues(m["18_cost_by_department"]) = m["01_total_monthly_cost"]
            /\ SumOfValues(m["14_acus_by_task_type"]) = m["02_total_acus"]
            /\ SumOfValues(m["17_acus_by_department"]) = m["02_total_acus"]
            /\ SumOfValues(m["07_sessions_per_user"]) = m["06_total_sessions"]
            /\ SumOfValues(m["13_sessions_by_task_type"]) = m["06_total_sessions"]
            /\ SumOfValues(m["16_sessions_by_department"]) = m["06_total_sessions"]

\* a@x is listed twice (the later entry says QA) and b@x is not listed
C12_Witness ==
    /\ calc_pc = "returned"
    /\ failed_metrics = <<>>
    /\ sessions = <<SessionDump(S1), SessionDump(S2)>>
    /\ users = <<UserDump(U1), UserDump(U3)>>
    /\ calc_out.metrics["17_acus_by_department"] = [d \in {"QA", "Unknown"} |->
                                                        IF d = "QA" THEN Num(3) ELSE Num(5)]
    /\ calc_out.metrics["13_sessions_by_task_type"] = [t \in {"feature", "unknown"} |-> Num(1)]
    /\ SumOfValues(calc_out.metrics["18_cost_by_department"]) = TimesPrice(Num(8))

ScalarKeys ==
    {"01_total_monthly_cost", "02_total_acus", "05_average_acus_per_session",
     "06_total_sessions", "08_total_duration_minutes", "09_average_session_duration",
     "10_acus_per_minute", "11_cost_per_minute", "12_unique_users",
     "19_average_cost_per_user", "20_efficiency_ratio"}

RatioKeys == {"10_acus_per_minute", "11_cost_per_minute", "20_efficiency_ratio"}

\* what the function of the i-th entry of metric_methods does on empty data
ZeroOrEmpty(i) ==
    Call(metric_methods[i][2]) =
        (IF metric_methods[i][1] \in ScalarKeys THEN Ok(Num(0)) ELSE Ok(<<>>))

\* C13: with an empty session list every one of the twenty aggregate
\* functions returns without raising, the scalar ones 0 and the grouped ones
\* the empty map, whatever the user list; and when sessions exist but their
\* total duration is 0 the per-minute and per-hour ratios return 0.
C13_TotalOnEmptyData ==
    /\ (broken = {} /\ sessions = <<>>) =>
          /\ \A i \in 1..Len(metric_methods) : ZeroOrEmpty(i)
          /\ calc_pc = "returned" =>
                /\ failed_metrics = <<>>
                /\ \A key \in Layer2Keys :
                      calc_out.metrics[key] = (IF key \in ScalarKeys THEN Num(0) ELSE <<>>)
    /\ (broken = {} /\ sessions # <<>> /\ TotalDuration = 0) =>
          /\ \A i \in 1..Len(metric_methods) :
                metric_methods[i][1] \in RatioKeys => Call(metric_methods[i][2]) = Ok(Num(0))
          /\ calc_pc = "returned" =>
                \A key \in RatioKeys : calc_out.metrics[key] = Num(0)

C13_Witness ==
    /\ calc_pc = "returned"
    /\ broken = {}
    /\ data # None
    /\ sessions = <<>>
    /\ users # <<>>
    /\ failed_metrics = <<>>
    /\ calc_out.metrics["05_average_acus_per_session"] = Num(0)
    /\ calc_out.metrics["16_sessions_by_department"] = <<>>

\* the catalogs the runs returned
Catalogs(copy) ==
    {finops_runs[i].result.value :
        i \in {j \in 1..Len(finops_runs) :
                  finops_runs[j].copy = copy /\ finops_runs[j].result.ok}}

AllCatalogs == Catalogs("metrics_service") \cup Catalogs("generate_report")

IsComputableVariant(entry) ==
    /\ {"value", "formula", "sources_used"} \subseteq DOMAIN entry
    /\ {"reason", "external_data_required"} \cap DOMAIN entry = {}

IsNotComputableVariant(entry) ==
    /\ {"value", "reason", "external_data_required"} \subseteq DOMAIN entry
    /\ entry.value = Txt("N/A")
    /\ {"formula", "sources_used"} \cap DOMAIN entry = {}

HasFailedReason(entry) ==
    "reason" \in DOMAIN entry /\ entry.reason[1] = "Failed to calculate: "

FailedIn(catalog, key) == key \in DOMAIN catalog /\ HasFailedReason(catalog[key])

\* C14: every entry of every catalog calculate_finops_metrics returns, in
\* both copies and also when the monthly-trend block failed, has a category
\* and is of exactly one variant: computable (value, formula, sources_used
\* and no reason) or not computable (value 'N/A', reason,
\* external_data_required and no formula or sources_used).
C14_ClosedVariants ==
    \A catalog \in AllCatalogs : \A key \in DOMAIN catalog :
        /\ "category" \in DOMAIN catalog[key]
        /\ IsComputableVariant(catalog[key]) # IsNotComputableVariant(catalog[key])

\* both copies have returned a catalog whose monthly-trend block failed, the
\* one of metrics_service after it had assigned entries
C14_Witness ==
    /\ \E catalog \in Catalogs("metrics_service") :
          /\ FailedIn(catalog, "Coste Mes")
          /\ "Numero de usuarios" \in DOMAIN catalog
    /\ \E catalog \in Catalogs("generate_report") :
          FailedIn(catalog, "Coste Total Mes Anterior")

\* the date-to-ACU maps the two copies of calculate_base_metrics have stored
StoredDateMaps ==
    {facts["consumption_by_date"].value :
        facts \in {f \in {base_data, report_base_data} :
                      /\ "consumption_by_date" \in DOMAIN f
                      /\ IsDict(f["consumption_by_date"].value)
                      /\ \A k \in DOMAIN f["consumption_by_date"].value.o :
                            IsNumber(f["consumption_by_date"].value.o[k])}}

MonthPrefixes ==
    {strftime_Ym(dt) : dt \in {[year |-> 2024, month |-> mm] : mm \in 8..12}
                              \cup {[year |-> 2025, month |-> 1]}}

\* the keys of the month, character by character
KeysOfMonth(d, prefix) ==
    {k \in DOMAIN d.o : Len(k) >= 7 /\ \A i \in 1..7 : k[i] = prefix[i]}

AcusOf(d, keys) == SumOfKeys([k \in keys |-> Num(d.o[k].n)], keys)

IsIsoDated(d) == \A k \in DOMAIN d.o : strptime_Ymd(k).ok

MonthsOf(d) == {SubSeq(k, 1, 7) : k \in DOMAIN d.o}

\* C15: for a date-to-ACU map and a month prefix 'YYYY-MM',
\* calculate_monthly_acus (calculate_monthly_acus_from_daily has the same
\* body) returns the sum of exactly the values whose key starts with the
\* prefix and 0 when there is none, the 'ACUs Mes' entry of metrics_service
\* is that sum for the month of the run, and the results for the distinct
\* months of an ISO-dated map add up to the total of the map.
C15_MonthlySums ==
    /\ \A d \in StoredDateMaps :
          /\ \A prefix \in MonthPrefixes \cup MonthsOf(d) :
                LET monthly == calculate_monthly_acus(d, prefix) IN
                /\ monthly.ok
                /\ monthly.value = AcusOf(d, KeysOfMonth(d, prefix))
                /\ KeysOfMonth(d, prefix) = {} => monthly.value = Num(0)
          /\ IsIsoDated(d) =>
                SumOfKeys([prefix \in MonthsOf(d) |-> calculate_monthly_acus(d, prefix).value],
                          MonthsOf(d))
                = AcusOf(d, DOMAIN d.o)
    /\ \A i \in 1..Len(finops_runs) :
          LET run == finops_runs[i] IN
          (/\ run.copy = "metrics_service"
           /\ run.result.ok
           /\ "ACUs Mes" \in DOMAIN run.result.value
           /\ IsComputableVariant(run.result.value["ACUs Mes"])
           /\ base_data["consumption_by_date"].value \in StoredDateMaps)
          => run.result.value["ACUs Mes"].value
                = Round2(AcusOf(base_data["consumption_by_date"].value,
                                KeysOfMonth(base_data["consumption_by_date"].value,
                                            strftime_Ym(run.now))))

\* a run of October 2024 on the map of five dates: 4 ACUs in the month, 5 in
\* the month before, 16 in all
C15_Witness ==
    /\ JObj(DatedAcus) \in StoredDateMaps
    /\ calculate_monthly_acus(JObj(DatedAcus), strftime_Ym([year |-> 2024, month |-> 9])).value
       = Num(5)
    /\ \E i \in 1..Len(finops_runs) :
          /\ finops_runs[i].copy = "metrics_service"
          /\ finops_runs[i].now = [year |-> 2024, month |-> 10]
          /\ finops_runs[i].result.ok
          /\ "ACUs Mes" \in DOMAIN finops_runs[i].result.value
          /\ IsComputableVariant(finops_runs[i].result.value["ACUs Mes"])
          /\ finops_runs[i].result.value["ACUs Mes"].value = Num(4)
          /\ base_data["consumption_by_date"].value = JObj(DatedAcus)

\* the facts a run read
FactsOf(run) == IF run.copy = "metrics_service" THEN base_data ELSE report_base_data

IsZero(facts, key) == get_value(facts, key, JNum(0)) = JNum(0)

\* the facts from which the whole of the function computes: numbers where
\* numbers are read and a consumption_by_user with a length
NumericFacts(facts) ==
    /\ \A key \in {"total_acus", "price_per_acu", "prs_merged", "sessions_count"} :
          IsNumber(get_value(facts, key, JNum(0)))
    /\ HasLen(get_value(facts, "consumption_by_user", EmptyObj))

IsComputed(catalog, key) == key \in DOMAIN catalog /\ IsComputableVariant(catalog[key])

\* the value of an entry, when the catalog has it in the computable variant
ValueIn(catalog, key, value) ==
    IsComputed(catalog, key) => catalog[key].value = value

\* the month before the reference month of a run
PreviousPrefix(run) ==
    strftime_Ym(PreviousMonth(
        IF run.copy = "generate_report" /\ end_date # None THEN strptime_Ymd(end_date.s).value
        ELSE run.now))

ZERO_BASE_MARKER == Txt("N/A (Costo Base Cero)")

\* C16: calculate_finops_metrics does not fail on a zero denominator: on
\* facts that are numbers it returns, no value of the catalog is a division
\* by zero, with zero merged PRs the cost and the ACUs per merged PR are 0,
\* with zero sessions the ACUs per session are 0, with zero total ACUs the
\* PRs per ACU are 0, and with a previous month that cost nothing the
\* percentage change is the zero-base marker text and no number.
C16_ZeroDenominators ==
    \A i \in 1..Len(finops_runs) :
        LET run == finops_runs[i]
            facts == FactsOf(run)
            catalog == run.result.value
        IN  /\ NumericFacts(facts) => run.result.ok
            /\ run.result.ok =>
                  /\ \A key \in DOMAIN catalog : catalog[key].value # ZeroDivisionError
                  /\ IsZero(facts, "prs_merged") =>
                        /\ catalog["Costo por PR mergeado"].value = Num(0)
                        /\ catalog["ACUs promedio por PR mergeado"].value = Num(0)
                        /\ ValueIn(catalog, "Coste medio por PR mergeado", Num(0))
                        /\ ValueIn(catalog, "ACUs medio por PR mergeado", Num(0))
                  /\ IsZero(facts, "sessions_count") =>
                        /\ catalog["ACUs por Sesion"].value = Num(0)
                        /\ ValueIn(catalog, "Media Total ACUs por sesion", Num(0))
                  /\ IsZero(facts, "total_acus") =>
                        /\ catalog["Promedio de PRs por ACU"].value = Num(0)
                        /\ ValueIn(catalog, "Promedio de PRs mergeados por ACU", Num(0))
                  /\ (/\ IsComputed(catalog, "Coste Mes Anterior")
                      /\ catalog["Coste Mes Anterior"].value = Num(0))
                     => ValueIn(catalog, "Variacion Porcentual", ZERO_BASE_MARKER)
                  /\ (/\ IsComputed(catalog, "% Mes actual vs mes anterior")
                      /\ AcusOf(facts["consumption_by_date"].value,
                                KeysOfMonth(facts["consumption_by_date"].value,
                                            PreviousPrefix(run))) = Num(0))
                     => catalog["% Mes actual vs mes anterior"].value = ZERO_BASE_MARKER

\* both copies have run on facts with no merged PR, no session and no ACU
\* and with a map whose previous month is empty
C16_Witness ==
    \A copy \in {"metrics_service", "generate_report"} :
        \E i \in 1..Len(finops_runs) :
            LET run == finops_runs[i] IN
            /\ run.copy = copy
            /\ run.result.ok
            /\ \A key \in {"prs_merged", "sessions_count", "total_acus"} :
                  key \in DOMAIN FactsOf(run) /\ IsZero(FactsOf(run), key)
            /\ run.result.value["Costo por PR mergeado"].value = Num(0)
            /\ \E key \in {"Variacion Porcentual", "% Mes actual vs mes anterior"} :
                  /\ key \in DOMAIN run.result.value
                  /\ run.result.value[key].value = ZERO_BASE_MARKER

\* the metrics of a copy that are computed from the monthly figures
MonthlyTrendKeys(copy) ==
    IF copy = "metrics_service"
    THEN MonthlyKeys \cup {"Diferencia (Mes Actual - Mes Anterior)", "Variacion Porcentual"}
    ELSE TrendKeys

\* the block was entered and the monthly figures of the run could not be
\* computed: the reference date or one of the two monthly sums raised
MonthlyComputationRaised(run) ==
    LET facts == FactsOf(run)
        report == run.copy = "generate_report"
        reference_dt == IF report /\ end_date # None THEN strptime_Ymd(end_date.s)
                        ELSE [ok |-> TRUE, value |-> run.now]
    IN  /\ Truthy(get_value(facts, "consumption_by_date", EmptyObj))
        /\ \/ ~reference_dt.ok
           \/ ~MonthlyFigures(facts, Preamble(facts), reference_dt.value, ~report).ok

\* C17, as the specification states it: an exception of the monthly-trend
\* computation does not leave calculate_finops_metrics, the metrics it
\* affects are 'N/A' with a reason beginning with 'Failed to calculate', and
\* a metric has such a reason only if its own computation raised in the run.
C17_Original ==
    \A i \in 1..Len(finops_runs) :
        LET run == finops_runs[i]
            catalog == run.result.value
        IN  /\ NumericFacts(FactsOf(run)) => run.result.ok
            /\ run.result.ok =>
                  /\ MonthlyComputationRaised(run) =>
                        \A key \in MonthlyTrendKeys(run.copy) :
                            /\ FailedIn(catalog, key)
                            /\ catalog[key].value = Txt("N/A")
                  /\ \A key \in DOMAIN catalog :
                        HasFailedReason(catalog[key]) =>
                            /\ key \in MonthlyTrendKeys(run.copy)
                            /\ MonthlyComputationRaised(run)

\* C19, as the specification states it: two executions of
\* calculate_base_metrics followed by calculate_finops_metrics on the same
\* all_api_data, configuration and end_date return the same dictionary,
\* whatever the clock reads at each of them.
C19_Original ==
    \A i, j \in 1..Len(finops_runs) :
        finops_runs[i].copy = finops_runs[j].copy
            => finops_runs[i].result = finops_runs[j].result

\* C18: whatever the number of handle_pipeline_phase wrappers around a
\* function, a PipelinePhaseError the function raises travels outwards
\* unchanged, any other Exception is replaced once, by the error_cls of the
\* innermost wrapper with details {function, original_error} and the
\* original as its cause, and no wrapper wraps a PipelinePhaseError.
C18_WrappedOnce ==
    phase_pc \in {"unwinding", "left"} =>
        /\ IsPipelinePhaseError(function_outcome) => phase_outcome = function_outcome
        /\ (/\ IsException(function_outcome)
            /\ ~IsPipelinePhaseError(function_outcome)
            /\ phase_level >= 1)
           => /\ phase_outcome.kind = "raise"
              /\ phase_outcome.cls = wrappers[1].error_cls
              /\ phase_outcome.created_by = 1
              /\ phase_outcome.details =
                     [function |-> FUNC_NAME, original_error |-> function_outcome.message]
              /\ phase_outcome.cause = function_outcome
        /\ (phase_outcome.kind = "raise" /\ phase_outcome.created_by >= 1)
           => ~IsPipelinePhaseError(phase_outcome.cause)

\* a ValueError has left three wrappers of different error classes as the
\* error of the innermost one
C18_Witness ==
    /\ phase_pc = "left"
    /\ Len(wrappers) = 3
    /\ wrappers[1].error_cls # wrappers[2].error_cls
    /\ wrappers[1].error_cls # wrappers[3].error_cls
    /\ function_outcome.kind = "raise"
    /\ function_outcome.cls = "ValueError"
    /\ phase_outcome.cls = wrappers[1].error_cls

\* the repository of the URL the loop of fetch_all_pr_data is about to process
NextRepo == RepoKey(parse_pr_url(pr_urls[pr_index + 1]))

AtParsedUrl ==
    pr_pc = "loop" /\ pr_index < Len(pr_urls) /\ parse_pr_url(pr_urls[pr_index + 1]) # None

\* C20: a repository never leaves _forbidden_repos; when the loop of
\* fetch_all_pr_data reaches a URL of a repository that is in the set, in
\* the call that put it there or in a later one, the iteration issues no
\* request and creates no result entry; and a repository enters the set
\* only in an iteration whose fetch_pr_details, for a URL of that
\* repository, raised AuthenticationError.
C20_ForbiddenRepos ==
    [][/\ forbidden_repos \subseteq forbidden_repos'
       /\ (AtParsedUrl /\ NextRepo \in forbidden_repos)
          => /\ pr_requests' = pr_requests
             /\ pr_results' = pr_results
             /\ pr_index' = pr_index + 1
       /\ forbidden_repos' # forbidden_repos
          => /\ AtParsedUrl
             /\ forbidden_repos' = forbidden_repos \cup {NextRepo}
             /\ pr_step' = "AuthenticationError"
             /\ pr_requests' = Append(pr_requests, Request(pr_urls[pr_index + 1], "details"))]_vars

\* in a second call a URL of a repository forbidden during the first has
\* been passed over: nothing was requested for it and it has no entry
C20_Witness ==
    /\ pr_calls = 2
    /\ pr_pc = "loop"
    /\ pr_index = 1
    /\ pr_step = "skipped"
    /\ RepoKey(parse_pr_url(pr_urls[1])) \in forbidden_repos
    /\ pr_urls[1] \notin DOMAIN pr_results
    /\ pr_requests = <<>>

(***************************************************************************)
(* Further properties of handle_api_errors (checked under SpecRetry).      *)
(***************************************************************************)
\* class AuthenticationError(APIError), RateLimitError(APIError),
\* ServerError(APIError)
IsAPIError(exc) ==
    exc \in {"APIError", "AuthenticationError", "RateLimitError", "ServerError"}

\* an HTTPError whose status is not one of retryable_status_codes
IsNonRetryableHttpOutcome(o) ==
    o.kind = "HTTPError" /\ ~IsRetryableHttpOutcome(o)

\* attempt k is the last invocation and the wrapper raised right after it
RaisedAtOnce(k) ==
    /\ k = Len(history)
    /\ wrapper_pc = "raised"
    /\ Len(sleeps) = k - 1
    /\ attempt = k

\* C25: a failure that is neither a retryable HTTP status, a timeout nor a
\* connection error is never retried, at whatever attempt it occurs: a
\* non-retryable HTTP status raises an APIError carrying that status code,
\* an exception of the taxonomy propagates as the same object with its
\* status_code unchanged, any other exception is replaced by an APIError
\* with status_code 'ERROR'; no sleep and no further invocation follow.
C25_NonRetryable ==
    \A k \in 1..Len(history) :
        LET o == history[k] IN
        /\ IsNonRetryableHttpOutcome(o) =>
             /\ RaisedAtOnce(k)
             /\ IsAPIError(wrapper_out.exc)
             /\ wrapper_out.status_code = o.status_code
             /\ wrapper_out.cause = "HTTPError"
        /\ o.kind = "Taxonomy" =>
             /\ RaisedAtOnce(k)
             /\ wrapper_out = Raised(o.exc, o.status_code, "same")
        /\ o.kind = "Exception" =>
             /\ RaisedAtOnce(k)
             /\ wrapper_out = Raised("APIError", StrV("ERROR"), o.cls)

C25_Witness ==
    /\ Len(history) = 3
    /\ history[1].kind = "ConnectionError"
    /\ history[2].kind = "HTTPError" /\ history[2].status_code = IntV(503)
    /\ history[3].kind = "HTTPError" /\ history[3].status_code = IntV(404)
    /\ wrapper_pc = "raised"
    /\ wrapper_out = Raised("APIError", IntV(404), "HTTPError")
    /\ Len(sleeps) = 2

\* C26: when the wrapped call fails with retryable errors on attempts
\* 1..k-1 and succeeds on attempt k <= max_retries, the wrapper returns the
\* value of the k-th invocation after exactly k invocations and k-1 sleeps,
\* and the call is not invoked again.
C26_SuccessAfterRetries ==
    \A k \in 1..Len(history) :
        history[k].kind = "ok" =>
            /\ k = Len(history)
            /\ k <= max_retries
            /\ \A j \in 1..(k - 1) : IsRetryableOutcome(history[j])
            /\ wrapper_pc = "returned"
            /\ wrapper_out = [kind |-> "return", value |-> history[k].value]
            /\ Len(sleeps) = k - 1
            /\ attempt = k

C26_Witness ==
    /\ max_retries = 3
    /\ Len(history) = 3
    /\ history[1].kind = "Timeout"
    /\ history[2].kind = "HTTPError" /\ history[2].status_code = IntV(429)
    /\ history[3] = [kind |-> "ok", value |-> 2]
    /\ wrapper_pc = "returned"
    /\ wrapper_out.value = 2
    /\ Len(sleeps) = 2

\* the error the wrapper raises when a retryable failure is the last attempt
TerminalOf(o) ==
    IF o.kind = "HTTPError" THEN Raised("ServerError", o.status_code, "HTTPError")
    ELSE IF o.kind = "Timeout" THEN Raised("APIError", StrV("TIMEOUT"), o.cls)
    ELSE Raised("APIError", StrV("CONNECTION_ERROR"), o.cls)

C28_WitnessNoAttempt ==
    /\ max_retries = 0
    /\ history = <<>>
    /\ wrapper_pc = "raised"
    /\ wrapper_out = Raised("APIError", None, "last_exception")

(***************************************************************************)
(* Properties of MetricsCalculator.load_data (checked under SpecCalc).     *)
(***************************************************************************)
\* a usage file in which only the fields acus_consumed, duration_minutes,
\* task_type and status of a session, and department and role of a user,
\* may be absent
OnlyOptionalFieldsMissing(raw) ==
    /\ \A i \in DOMAIN RawSessions(raw) :
          LET session == RawSessions(raw)[i] IN
          /\ {"session_id", "user_email"} \subseteq DOMAIN session
          /\ Field(session, "acus_consumed", 0) >= 0
          /\ Field(session, "duration_minutes", 0) >= 0
    /\ \A i \in DOMAIN RawUsers(raw) : "user_email" \in DOMAIN RawUsers(raw)[i]

\* C22, as the specification states it: load_data accepts a usage file whose
\* session records lack acus_consumed, duration_minutes or task_type; such a
\* session is loaded, counts 0 ACUs and 0 minutes and task type 'unknown',
\* and a session whose user has no user_details entry is counted under
\* department 'Unknown'.
C22_Original ==
    (calc_pc \in {"loaded", "load_failed"} /\ file.kind = "json"
       /\ OnlyOptionalFieldsMissing(file.raw)) =>
        /\ calc_pc # "load_failed"
        /\ Len(sessions) = Len(RawSessions(file.raw))
        /\ \A i \in 1..Len(sessions) :
              LET session == RawSessions(file.raw)[i] IN
              /\ acus_consumed(sessions[i]) = Field(session, "acus_consumed", 0)
              /\ duration_minutes(sessions[i]) = Field(session, "duration_minutes", 0)
              /\ task_type(sessions[i]) = Field(session, "task_type", "unknown")
              /\ (\A u \in 1..Len(users) : users[u].user_email # session.user_email)
                    => department(sessions[i]) = "Unknown"

\* C23, as the specification states it: load_data raises FileNotFoundError
\* for a path that does not exist and json.JSONDecodeError for a file whose
\* content is not valid JSON.
C23_Original ==
    /\ (calc_pc = "load_failed" /\ file.kind = "missing") =>
          calc_out.raised = "FileNotFoundError"
    /\ (calc_pc = "load_failed" /\ file.kind = "invalid_json") =>
          calc_out.raised = "JSONDecodeError"

(***************************************************************************)
(* Further properties of calculate_finops_metrics (checked under           *)
(* SpecFinops).                                                            *)
(***************************************************************************)
\* the source paths of the form '<endpoint>.response.<field>'
ResponsePaths ==
    {"consumption_daily.response.total_acus",
     "consumption_daily.response.consumption_by_date",
     "consumption_daily.response.consumption_by_user",
     "consumption_daily.response.consumption_by_org_id",
     "metrics_prs.response.prs_opened", "metrics_prs.response.prs_closed",
     "metrics_prs.response.prs_merged", "metrics_sessions.response.sessions_count",
     "members.response.total"}

\* the source paths of the base metrics that are present
SourcesPresent(facts) == {facts[key].source : key \in DOMAIN facts}

SourcePaths(entry) == {entry.sources_used[i] : i \in 1..Len(entry.sources_used)}

\* C24, as the specification states it: every computable metric that
\* calculate_finops_metrics returns has a non-empty sources_used, none of
\* its source paths is the placeholder 'N/A', and each source path of the
\* form '<endpoint>.response.<field>' is the source of a base metric that
\* is present in base_data.
C24_Original ==
    \A i \in 1..Len(finops_runs) :
        LET run == finops_runs[i] IN
        run.result.ok =>
            \A key \in DOMAIN run.result.value :
                LET entry == run.result.value[key] IN
                IsComputableVariant(entry) =>
                    /\ entry.sources_used # <<>>
                    /\ "N/A" \notin SourcePaths(entry)
                    /\ SourcePaths(entry) \cap ResponsePaths
                           \subseteq SourcesPresent(FactsOf(run))

\* the keys the try block of the copy assigns when nothing in it raises
BlockKeys(copy) ==
    IF copy = "generate_report" THEN TrendKeys
    ELSE LET none == <<>>
             pre == Preamble(none)
             m == MonthlyFigures(none, pre, [year |-> 2024, month |-> 10], TRUE)
         IN  DOMAIN (TrendEntries(none, pre, m) @@ AverageEntries(none, pre, m)
                       @@ PrEntries(none, pre))

\* the try block of the run was entered and a statement in it raised
BlockRaised(run) ==
    LET facts == FactsOf(run) IN
    IF run.copy = "generate_report" THEN MonthlyComputationRaised(run)
    ELSE /\ Truthy(get_value(facts, "consumption_by_date", EmptyObj))
         /\ \/ MonthlyComputationRaised(run)
            \/ \E key \in {"user_count", "prs_opened", "prs_closed"} :
                  ~IsNumber(get_value(facts, key, JNum(0)))

\* C30, as the specification states it: the monthly-trend block is
\* all-or-nothing; when a step inside it raises, every key the block assigns
\* is in the returned catalog in the failed variant ('N/A' with a 'Failed to
\* calculate' reason) and none keeps a computed value.
C30_Original ==
    \A i \in 1..Len(finops_runs) :
        LET run == finops_runs[i]
            catalog == run.result.value
        IN  (run.result.ok /\ BlockRaised(run)) =>
                \A key \in BlockKeys(run.copy) :
                    /\ FailedIn(catalog, key)
                    /\ catalog[key].value = Txt("N/A")

(***************************************************************************)
(* Further properties of fetch_all_pr_data (checked under SpecGithub).     *)
(***************************************************************************)
\* the iteration of the loop that this step is, if it is one
IterationOf(P(_, _)) ==
    pr_index' = pr_index + 1 =>
        LET pr_url == pr_urls[pr_index + 1] IN P(pr_url, parse_pr_url(pr_url))

\* what an AuthenticationError of fetch_pr_details leaves behind: one
\* request for the details and no other, the entry of the PR with empty
\* details, the entries of the other PRs as they were, and the loop going on
AuthFailureEndsThisPrOnly(pr_url, parsed) ==
    pr_step' = "AuthenticationError" =>
        /\ pr_requests' = Append(pr_requests, Request(pr_url, "details"))
        /\ pr_results'[pr_url] = BarePrData(pr_url, parsed)
        /\ \A other \in DOMAIN pr_results :
              other # pr_url => pr_results'[other] = pr_results[other]
        /\ pr_pc' = "loop"

\* the call returns only from the end of the list
ReturnsAtEndOnly == (pr_pc = "loop" /\ pr_pc' = "returned") => pr_index = Len(pr_urls)

C21_OriginalStep(pr_url, parsed) ==
    parsed # None =>
        /\ AuthFailureEndsThisPrOnly(pr_url, parsed)
        /\ pr_url \in DOMAIN pr_results'

C21_Step(pr_url, parsed) ==
    (parsed # None /\ RepoKey(parsed) \notin forbidden_repos) =>
        /\ AuthFailureEndsThisPrOnly(pr_url, parsed)
        /\ pr_url \in DOMAIN pr_results'
        /\ pr_step' \in {"fetched", "AuthenticationError", "ServerError"}

HandledInline(call_record) == call_record.slept # <<>>

\* the seconds from the clock to the reset time of the header, the header
\* counting as 0 when the response has none
Gap(response, now) ==
    (IF response.reset = None THEN 0 ELSE response.reset.n) - now

\* C27, as the specification states it: the inline handling of _github_get
\* is triggered by a 429 response that carries the rate-limit header; it
\* sleeps the gap until the reset time of X-RateLimit-Reset and re-issues
\* the request once.
C27_Original ==
    \A k \in 1..Len(history) :
        LET first == history[k].gets[1] IN
        IsResponse(first) =>
            /\ HandledInline(history[k]) <=>
                  (first.status_code = 429 /\ first.reset # None)
            /\ HandledInline(history[k]) =>
                  /\ history[k].slept = <<Gap(first, history[k].now)>>
                  /\ Len(history[k].gets) = 2

\* the body says "rate limit", in whatever case
SaysRateLimit(response) ==
    \E k \in 1..(Len(response.text) - 1) :
        /\ response.text[k] \in {"rate", "Rate", "RATE"}
        /\ response.text[k + 1] \in {"limit", "Limit", "LIMIT"}

\* C27 amended: the inline handling of _github_get is triggered by a 403
\* response whose body contains 'rate limit' in any case, with or without
\* the X-RateLimit-Reset header (a 429 response is left to
\* handle_api_errors): it sleeps the gap until the reset time, at least 1
\* and at most 60 seconds, and re-issues the request once, whatever the
\* second answer; this happens inside one invocation and leaves the attempt
\* counter and the backoff delays of handle_api_errors as they are.
C27_InlineRateLimit ==
    /\ \A k \in 1..Len(history) :
          LET first == history[k].gets[1]
              gap == Gap(first, history[k].now)
          IN  /\ HandledInline(history[k]) =>
                    /\ IsResponse(first)
                    /\ first.status_code = 403
                    /\ SaysRateLimit(first)
                    /\ history[k].slept =
                          <<IF gap < 1 THEN 1 ELSE IF gap > 60 THEN 60 ELSE gap>>
                    /\ Len(history[k].gets) = 2
              /\ ~HandledInline(history[k]) => Len(history[k].gets) = 1
              /\ (IsResponse(first) /\ first.status_code = 403 /\ SaysRateLimit(first)
                    /\ (first.reset = None \/ first.reset.t = "int"))
                    => HandledInline(history[k])
              /\ (IsResponse(first) /\ first.status_code = 429) =>
                    /\ ~HandledInline(history[k])
                    /\ history[k].kind = "HTTPError"
                    /\ history[k].status_code = IntV(429)
    /\ Len(history) <= 3
    /\ wrapper_pc = "running" => attempt = Len(history) + 1
    /\ \A k \in 1..Len(sleeps) : sleeps[k] = Pow2(k - 1)

\* a 403 with a rate-limit body and a reset time 100 seconds ahead was slept
\* on for 60 seconds and asked again; the 429 that came back, and the 429 of
\* the next invocation, went to the backoff of handle_api_errors
C27_Witness ==
    /\ Len(history) = 2
    /\ history[1].gets[1] = Response(403, RateLimitBody, IntV(1100))
    /\ history[1].slept = <<60>>
    /\ history[1].gets[2] = Response(429, RateLimitBody, IntV(1030))
    /\ history[2].gets = <<Response(429, RateLimitBody, IntV(1030))>>
    /\ history[2].slept = <<>>
    /\ sleeps = <<1, 2>>
    /\ wrapper_pc = "running"

(***************************************************************************)
(* Properties of fetch_jira_issue_changelog (checked under SpecJira).      *)
(***************************************************************************)
\* the page request was answered with an object
AnsweredObject(page) ==
    "data" \in DOMAIN page.answer /\ page.answer.data.j = "obj"

\* the entries the page delivered: those of a list under 'values'
Delivered(page) ==
    IF AnsweredObject(page) /\ "values" \in DOMAIN page.answer.data.o
         /\ page.answer.data.o["values"].j = "list"
    THEN page.answer.data.o["values"].l
    ELSE <<>>

\* the request of the page, or the handling of its answer, failed
PageFailed(page) ==
    \/ ~AnsweredObject(page)
    \/ /\ "values" \in DOMAIN page.answer.data.o
       /\ page.answer.data.o["values"].j # "list"
    \/ /\ "total" \in DOMAIN page.answer.data.o
       /\ page.answer.data.o["total"].j # "num"

\* the page is the last one: it failed, states no total, or start_at plus
\* the number of values received has reached the total
EndsLoop(page) ==
    \/ PageFailed(page)
    \/ "total" \notin DOMAIN page.answer.data.o
    \/ page.start_at + Len(Delivered(page)) >= page.answer.data.o["total"].n

RECURSIVE DeliveredUpTo(_)
DeliveredUpTo(n) ==
    IF n = 0 THEN <<>> ELSE DeliveredUpTo(n - 1) \o Delivered(jira_pages[n])

\* C29: fetch_jira_issue_changelog terminates when the totals of the pages
\* are bounded: each iteration either ends the loop (the page failed, states
\* no total, or start_at plus the number of values received has reached the
\* total) or increases start_at by 100; a failed page request ends the loop
\* without raising, and the function returns the entries of the pages
\* fetched before it.
C29_ChangelogTerminates ==
    /\ \A k \in 1..Len(jira_pages) : jira_pages[k].start_at = 100 * (k - 1)
    /\ \A k \in 1..(Len(jira_pages) - 1) : ~EndsLoop(jira_pages[k])
    /\ Len(jira_pages) <= (MaxTotal + 99) \div 100 + 1
    /\ all_changelogs = DeliveredUpTo(Len(jira_pages))
    /\ jira_pc = "loop" =>
          /\ start_at = 100 * Len(jira_pages)
          /\ jira_pages # <<>> => ~EndsLoop(jira_pages[Len(jira_pages)])
    /\ (jira_pc = "returned" /\ jira_base_url) =>
          /\ jira_pages # <<>>
          /\ EndsLoop(jira_pages[Len(jira_pages)])
          /\ jira_out = JList(DeliveredUpTo(Len(jira_pages)))
          /\ ~AnsweredObject(jira_pages[Len(jira_pages)]) =>
                jira_out = JList(DeliveredUpTo(Len(jira_pages) - 1))

\* two pages stated the largest total and delivered two entries and one, the
\* request of the third page failed, and the three entries were returned
C29_Witness ==
    /\ jira_pc = "returned"
    /\ Len(jira_pages) = 3
    /\ jira_pages[1].answer = [data |-> JObj([values |-> JList(<<"c1", "c2">>),
                                              total |-> JNum(MaxTotal)])]
    /\ jira_pages[2].answer = [data |-> JObj([values |-> JList(<<"c1">>),
                                              total |-> JNum(MaxTotal)])]
    /\ jira_pages[3] = [start_at |-> 200, answer |-> [raises |-> "ServerError"]]
    /\ jira_out = JList(<<"c1", "c2", "c1">>)

====
